---- MODULE Spec2Model ----
(***************************************************************************)
(* Model of the Discord message-collection pipeline of                     *)
(* src/discord_chat/services/discord_client.py: one DiscordMessageFetcher, *)
(* its background login task, the overall timeout of                       *)
(* fetch_server_messages, the cleanup of _fetch_server_messages_impl, the  *)
(* semaphore-gated channel fetches and the per-channel history loop.       *)
(* The event loop is single threaded: every action below is the code that  *)
(* runs between two suspension points (await) of one task.                 *)
(***************************************************************************)
EXTENDS Integers, Sequences, FiniteSets, TLC

\* ------------------------------------------------------------------ bounds
MaxChannels == 2      \* channels of a guild (text or not)
MaxLimit == 2         \* largest max_concurrent_channels tried
MaxTotalRaw == 2      \* raw messages delivered over all channels of one call
MaxHistoryErrors == 1 \* channel histories that raise during one call
MaxGuilds == 2        \* guilds of the client when the resolver is called directly
MaxHistory == 2       \* raw messages of a history when the fetch is called directly

\* -------------------------------------------------------- program constants
READY_WAIT_TIMEOUT == 30
DEFAULT_TIMEOUT == 60
MIN_TIMEOUT == 10

\* An optional value: <<>> is Python's None, <<v>> is the value v.
None == <<>>
Some(v) == <<v>>

\* ------------------------------------------------------------------ helpers
Range(s) == {s[i] : i \in 1..Len(s)}

RECURSIVE SumSeq(_)
SumSeq(s) == IF s = <<>> THEN 0 ELSE Head(s) + SumSeq(Tail(s))

\* ------------------------------------------------------------ server names
\* A name is a sequence of characters; str.lower() works character by character.
lower_char(c) == CASE c = "T" -> "t"
                   [] c = "E" -> "e"
                   [] OTHER -> c

lower(name) == [i \in 1..Len(name) |-> lower_char(name[i])]

\* Python's `needle in hay` on strings: needle occurs as a contiguous run.
str_in(needle, hay) ==
    \E k \in 0..(Len(hay) - Len(needle)) :
        \A i \in 1..Len(needle) : hay[k + i] = needle[i]

\* The guild lists the remote service may report once the client is ready, and
\* the server names a caller may ask for.
GuildLists ==
    { <<>>,
      << <<"T", "e", "x">>, <<"T", "e">> >> }

ServerNames == { <<"t", "e">>, <<"x", "x">> }

NotFound == [found |-> FALSE, index |-> 0]

\* First index of guilds satisfying P, 0 when there is none.
first_exact(guilds, server_name_lower) ==
    LET hits == {i \in 1..Len(guilds) : lower(guilds[i]) = server_name_lower}
    IN IF hits = {} THEN 0 ELSE CHOOSE i \in hits : \A j \in hits : i <= j

\* first_partial taking the last guild that contains the name.
last_partial(guilds, server_name_lower) ==
    LET hits == {i \in 1..Len(guilds) : str_in(server_name_lower, lower(guilds[i]))}
    IN IF hits = {} THEN 0 ELSE CHOOSE i \in hits : \A j \in hits : i >= j

first_partial(guilds, server_name_lower) ==
    LET hits == {i \in 1..Len(guilds) : str_in(server_name_lower, lower(guilds[i]))}
    IN IF hits = {} THEN 0 ELSE CHOOSE i \in hits : \A j \in hits : i <= j

\* _find_server_by_name with a single loop taking the first guild that contains
\* the name.
find_server_partial_first(guilds, server_name) ==
    LET p == first_partial(guilds, lower(server_name))
    IN IF p # 0 THEN [found |-> TRUE, index |-> p] ELSE NotFound

\* _find_server_by_name: exact match first, then partial, else ServerNotFoundError.
find_server_by_name(guilds, server_name) ==
    LET server_name_lower == lower(server_name)
        e == first_exact(guilds, server_name_lower)
        p == first_partial(guilds, server_name_lower)
    IN IF e # 0 THEN [found |-> TRUE, index |-> e]
       ELSE IF p # 0 THEN [found |-> TRUE, index |-> p]
       ELSE NotFound

\* ", ".join(available_servers)
RECURSIVE join(_, _)
join(sep, names) ==
    IF names = <<>> THEN <<>>
    ELSE IF Len(names) = 1 THEN names[1]
    ELSE names[1] \o sep \o join(sep, Tail(names))

\* The list of servers in the ServerNotFoundError message:
\* ', '.join(available_servers) or 'None'.
available_servers(guilds) ==
    LET joined == join(<<",", " ">>, guilds)
    IN IF joined = <<>> THEN <<"N", "o", "n", "e">> ELSE joined


\* ---------------------------------------------------------------- messages
MAX_MESSAGE_CONTENT_LENGTH == 100000
TRUNCATED_SUFFIX_LENGTH == 14       \* len("...[truncated]")
MAX_ATTACHMENTS == 10
MAX_REACTIONS == 20
MAX_AUTHOR_LENGTH == 100
MAX_EMOJI_LENGTH == 20

\* A string too long to spell out is a sequence of pieces, each a run of n times
\* the character ch; the empty string is <<>>.
Piece(ch, n) == [ch |-> ch, n |-> n]

RECURSIVE str_len(_)
str_len(str) == IF str = <<>> THEN 0 ELSE Head(str).n + str_len(Tail(str))

\* str[:n]
RECURSIVE str_take(_, _)
str_take(str, n) ==
    IF str = <<>> \/ n <= 0 THEN <<>>
    ELSE IF Head(str).n <= n
         THEN <<Head(str)>> \o str_take(Tail(str), n - Head(str).n)
         ELSE << Piece(Head(str).ch, n) >>

\* The marker "...[truncated]", one piece of its own.
TruncatedSuffix == << Piece("...[truncated]", TRUNCATED_SUFFIX_LENGTH) >>

\* message.created_at: seconds and microseconds of one UTC day.
CreatedAt(second, microsecond) == [second |-> second, microsecond |-> microsecond]

\* datetime.isoformat() as the sequence of the character codes that matter for
\* the order: the seconds digit, then ".d" only when the microseconds are not
\* zero, then the "+" of the UTC offset.
isoformat(created_at) ==
    IF created_at.microsecond = 0
    THEN << 48 + created_at.second, 43 >>
    ELSE << 48 + created_at.second, 46, 48 + created_at.microsecond, 43 >>

\* a < b for strings: the order of Python's str comparison.
RECURSIVE str_less(_, _)
str_less(a, b) ==
    IF b = <<>> THEN FALSE
    ELSE IF a = <<>> THEN TRUE
    ELSE IF Head(a) # Head(b) THEN Head(a) < Head(b)
    ELSE str_less(Tail(a), Tail(b))

\* a.filename for the attachments, r.emoji / r.count for the reactions: an
\* attachment is known by its position in the raw message; the first reaction
\* has a custom emoji of 21 characters, the k-th one of 22 - k characters.
RECURSIVE Files(_)
Files(k) == IF k = 0 THEN <<>> ELSE Append(Files(k - 1), [filename |-> k, more |-> 0])

RECURSIVE Reactions(_)
Reactions(r) == IF r = 0 THEN <<>> ELSE Append(Reactions(r - 1),
                          [emoji |-> IF r = 1 THEN << Piece("e", MAX_EMOJI_LENGTH), Piece("f", 1) >>
                                     ELSE << Piece("e", MAX_EMOJI_LENGTH + 2 - r) >>,
                           count |-> 1])

\* The raw messages a channel history may deliver to the fetcher.
RawMessages ==
    { [id |-> 1, created_at |-> CreatedAt(2, 0), bot |-> FALSE,
       display_name |-> << Piece("n", 1) >>,
       content |-> << Piece("a", 1) >>, attachments |-> Files(0), reactions |-> Reactions(0)],
      [id |-> 2, created_at |-> CreatedAt(1, 5), bot |-> FALSE,
       display_name |-> << Piece("n", 1) >>,
       content |-> <<>>, attachments |-> Files(1), reactions |-> Reactions(1)],
      [id |-> 3, created_at |-> CreatedAt(1, 0), bot |-> TRUE,
       display_name |-> << Piece("n", 1) >>,
       content |-> << Piece("a", 1) >>, attachments |-> Files(0), reactions |-> Reactions(0)],
      [id |-> 4, created_at |-> CreatedAt(2, 0), bot |-> FALSE,
       display_name |-> << Piece("n", 1) >>,
       content |-> <<>>, attachments |-> Files(0), reactions |-> Reactions(0)] }

\* skipped with the bot test only.
skipped_bots_only(message) == message.bot

\* The two `continue` tests of the history loop.
skipped(message) ==
    \/ message.bot
    \/ (message.content = <<>> /\ message.attachments = <<>>)

\* truncate cutting content that is exactly at the limit as well.
truncate_at_limit(content) ==
    IF str_len(content) >= MAX_MESSAGE_CONTENT_LENGTH
    THEN str_take(content, MAX_MESSAGE_CONTENT_LENGTH) \o TruncatedSuffix
    ELSE content

\* content[:MAX_MESSAGE_CONTENT_LENGTH] + "...[truncated]" for long content.
truncate(content) ==
    IF str_len(content) > MAX_MESSAGE_CONTENT_LENGTH
    THEN str_take(content, MAX_MESSAGE_CONTENT_LENGTH) \o TruncatedSuffix
    ELSE content

\* limit_attachments without the "...and N more" entry.
limit_attachments_no_summary(attachments) ==
    SubSeq(attachments, 1, IF Len(attachments) > MAX_ATTACHMENTS THEN MAX_ATTACHMENTS
                           ELSE Len(attachments))

\* The first ten filenames, then "...and N more" when there are more.
limit_attachments(attachments) ==
    IF Len(attachments) > MAX_ATTACHMENTS
    THEN Append(SubSeq(attachments, 1, MAX_ATTACHMENTS),
                [filename |-> 0, more |-> Len(attachments) - MAX_ATTACHMENTS])
    ELSE attachments

\* limit_emoji leaving the emoji as it is.
limit_emoji_whole(emoji) == emoji

\* str(r.emoji)[:20]
limit_emoji(emoji) == str_take(emoji, MAX_EMOJI_LENGTH)

\* {"emoji": str(r.emoji)[:20], "count": r.count} for r in list(message.reactions)[:20]
limit_reactions(reactions) ==
    [k \in 1..(IF Len(reactions) > MAX_REACTIONS THEN MAX_REACTIONS ELSE Len(reactions)) |->
         [emoji |-> limit_emoji(reactions[k].emoji), count |-> reactions[k].count]]

\* message.author.display_name[:100]
limit_author(display_name) == str_take(display_name, MAX_AUTHOR_LENGTH)

\* The dict appended for an included message.
to_message(message) ==
    [ id |-> message.id,
      author |-> limit_author(message.display_name),
      timestamp |-> isoformat(message.created_at),
      content |-> truncate(message.content),
      attachments |-> limit_attachments(message.attachments),
      reactions |-> limit_reactions(message.reactions) ]

\* The messages in the order the history delivered them.
unsorted(messages) == messages

\* a's sort key is smaller than b's.
timestamp_less(a, b) == str_less(a.timestamp, b.timestamp)

\* sorted(messages, key=lambda m: m["timestamp"]): a stable sort, messages with
\* equal keys stay in the order they were appended in.
sorted_by_timestamp(messages) == SortSeq(messages, timestamp_less)

\* ------------------------------------------------------------------- state
VARIABLES
    pc,                      \* where fetch_server_messages is suspended
    operation_timeout,       \* the bound given to asyncio.wait_for
    timer_fired,             \* the overall timeout has expired
    ready_timer_fired,       \* the 30 s ready-wait timeout has expired
    exc,                     \* exception in flight inside _fetch_server_messages_impl
    ret,                     \* value the try block of the impl is returning
    outcome,                 \* what the caller of fetch_server_messages gets
    login_task,              \* state of the task running client.start(token)
    login_cancel_called,     \* login_task.cancel() was called
    login_awaited,           \* `await login_task` has completed
    ready_event,             \* self._ready_event
    closed,                  \* client.is_closed()
    close_calls,             \* invocations of client.close()
    max_concurrent_channels, \* DISCORD_CHAT_MAX_CONCURRENT as configured
    semaphore,               \* free slots of the asyncio.Semaphore
    guild,                   \* the guild _find_server_by_name returned
    tasks,                   \* the fetch_with_semaphore tasks, in submission order
    audit,                   \* the calls made to the security logger, in order
    unit,                    \* the last direct call of a helper: function, arguments, outcome
    args,                    \* the timeout and hours arguments of fetch_server_messages
    window,                  \* end_time and start_time of _fetch_server_messages_impl
    clock,                   \* what datetime.now(UTC) returns at this moment
    pair                     \* two fetchers running in one event loop, with their objects

vars == << pc, operation_timeout, timer_fired, ready_timer_fired, exc, ret, outcome,
           login_task, login_cancel_called, login_awaited, ready_event, closed,
           close_calls, max_concurrent_channels, semaphore, guild, tasks, audit, unit,
           args, window, clock, pair >>

NoExc == [type |-> "none", detail |-> <<>>]
Exc(t, d) == [type |-> t, detail |-> d]

NoValue == [kind |-> "none"]

\* The credentials a fetcher may have been constructed with.
Credentials == { "credential-a", "credential-b" }

\* discord.LoginFailure of client.start(token): its text is the library's and
\* the remote service's, and may repeat the credential that was refused.
LoginFailure(token) == Exc("LoginFailure", <<"Improper token has been passed.", token>>)

\* discord.HTTPException: the text of the response, after the status code when
\* the exception object has a `status` attribute.
HTTPException(status, text) == Exc("HTTPException", status \o <<text>>)

\* Exceptions client.start() may end with before the client is ready.
LoginExceptions ==
    { LoginFailure(token) : token \in Credentials }
    \cup { Exc("PrivilegedIntentsRequired", <<>>),
           HTTPException(Some("429"), "Rate limited"),
           HTTPException(None, "Rate limited"),
           Exc("Exception", <<>>) }

\* Exceptions client.start() may end with once connected (gateway failures).
ConnectedExceptions == { Exc("Exception", <<>>) }

\* The `timeout` argument of fetch_server_messages: not given, or a bound below
\* the range of the configured one.
TimeoutArgs == { None, Some(MIN_TIMEOUT - 5) }

\* The overall bound with the argument held to the configured range.
overall_timeout_in_range(timeout) ==
    IF timeout # None /\ timeout[1] >= MIN_TIMEOUT THEN timeout[1] ELSE DEFAULT_TIMEOUT

\* timeout if timeout is not None else self.operation_timeout, with
\* DISCORD_CHAT_TIMEOUT not set.
overall_timeout(timeout) ==
    IF timeout # None THEN timeout[1] ELSE DEFAULT_TIMEOUT

\* The `hours` argument: one day, and a look-back longer than the calendar.
Hours == { 24, 100000000 }

\* datetime.now(UTC), in hours since 0001-01-01T00:00.
Now == 2026 * 8766

\* end_time - timedelta(minutes=hours)
start_time_in_minutes(end_time, hours) == end_time - (hours \div 60)

\* end_time - timedelta(hours=hours)
start_time(end_time, hours) == end_time - hours

\* datetime holds the years 1..9999; arithmetic leaving them raises OverflowError.
in_datetime_range(t) == t >= 0 /\ t < 9999 * 8766

\* guild.channels: text and non-text channels in enumeration order.
RECURSIVE SeqsUpTo(_, _)
SeqsUpTo(S, n) ==
    IF n = 0 THEN { <<>> }
    ELSE LET shorter == SeqsUpTo(S, n - 1)
         IN shorter \cup { Append(q, x) : q \in {r \in shorter : Len(r) = n - 1}, x \in S }

\* Up to MaxChannels channels; a non-text channel, when there is one, comes first.
ChannelLayouts ==
    { layout \in SeqsUpTo({"text", "voice"}, MaxChannels) :
          \A i \in 2..Len(layout) : layout[i] = "text" }

\* Two DiscordMessageFetcher instances of one process.
Fetchers == {1, 2}

\* No helper has been called directly.
NoCall == [fn |-> "none"]

Init ==
    /\ pc = "idle"
    /\ operation_timeout = 0
    /\ timer_fired = FALSE
    /\ ready_timer_fired = FALSE
    /\ exc = NoExc
    /\ ret = NoValue
    /\ outcome = NoValue
    /\ login_task = [state |-> "not_started", exc |-> NoExc]
    /\ login_cancel_called = FALSE
    /\ login_awaited = FALSE
    /\ ready_event = FALSE
    /\ closed = FALSE
    /\ close_calls = 0
    /\ max_concurrent_channels \in 1..MaxLimit
    /\ semaphore = 0
    /\ guild = NoValue
    /\ tasks = <<>>
    /\ audit = <<>>
    /\ unit = NoCall
    /\ args = [timeout |-> None, hours |-> 0]
    /\ window = [start_time |-> 0, end_time |-> 0]
    /\ clock = Now
    /\ pair = [ calls |-> [f \in Fetchers |-> [pc |-> "idle", limit |-> 0, tasks |-> <<>>]],
                semaphores |-> [o \in Fetchers |-> 0],
                closed |-> [o \in Fetchers |-> FALSE] ]


\* ------------------------------------------------------- error translation
Error(type, message, arg) ==
    [kind |-> "error", type |-> type, message |-> message, arg |-> arg]

Result(data) == [kind |-> "result", value |-> data]

\* e.status if hasattr(e, "status") else "unknown"
http_status(e) == IF Len(e.detail) = 2 THEN e.detail[1] ELSE "unknown"

\* The except clauses of _fetch_server_messages_impl, in order. CancelledError is
\* no Exception: no clause catches it.
translate(e) ==
    CASE e.type = "PrivilegedIntentsRequired" ->
             Error("DiscordClientError", "Privileged intents required", <<>>)
      [] e.type = "LoginFailure" ->
             Error("DiscordClientError", "Discord authentication failed", <<>>)
      [] e.type = "HTTPException" ->
             Error("DiscordClientError", "Discord API request failed", <<http_status(e)>>)
      [] e.type = "CancelledError" ->
             Error("CancelledError", "", <<>>)
      [] OTHER ->
             Error("DiscordClientError", "Failed to fetch Discord messages", <<>>)

\* fetch_server_messages: what asyncio.wait_for hands back, with the TimeoutError
\* handler. wait_for turns the cancellation it caused into TimeoutError; a value
\* or another exception of the impl passes through unchanged.
call_outcome(e, r, timeout) ==
    IF e = NoExc THEN Result(r)
    ELSE IF translate(e).type = "CancelledError"
         THEN Error("DiscordClientError", "Operation timed out after", <<timeout>>)
         ELSE translate(e)

\* The handlers that run `if not self._client.is_closed(): await self._client.close()`.
handler_closes(e) ==
    /\ e # NoExc
    /\ e.type \notin {"PrivilegedIntentsRequired", "LoginFailure", "HTTPException"}

\* ------------------------------------------------------------ login task
LoginTask(state, e) == [state |-> state, exc |-> e]

\* ------------------------------------------------------------- semaphore
\* locked of a semaphore that never blocks.
never_locked(value, ts) == FALSE

\* Semaphore.locked(): no free slot, or somebody is already queued.
locked(value, ts) ==
    \/ value = 0
    \/ \E j \in 1..Len(ts) : ts[j].state = "waiting"

\* release that forgets to give the slot back.
release_lost(value) == value

release(value) == value + 1

\* ----------------------------------------------------------- audit events
log_auth_attempt(success, reason) ==
    [event |-> "auth_attempt", success |-> success, arg |-> <<reason>>]

log_rate_limit(limit) ==
    [event |-> "rate_limit", success |-> TRUE, arg |-> <<limit>>]

\* log_api_call naming no channel.
log_api_call_unnamed(channel_id, success) ==
    [event |-> "api_call", success |-> success, arg |-> <<0>>]

log_api_call(channel_id, success) ==
    [event |-> "api_call", success |-> success, arg |-> <<channel_id>>]

\* ----------------------------------------------------- steps of the main flow
\* A finally clause that goes straight to the login task.
EnterFinally_without_close(e, r) ==
    /\ pc' = "closing"
    /\ exc' = e
    /\ ret' = r
    /\ UNCHANGED << close_calls, closed >>

\* The try block of the impl is left with exception e in flight (or with value
\* r): the finally clause starts with `await self._client.close()`.
EnterFinally(e, r) ==
    /\ pc' = "closing"
    /\ exc' = e
    /\ ret' = r
    /\ close_calls' = close_calls + 1
    /\ closed' = TRUE

\* The impl is left for good with e in flight (or value r): the except clauses,
\* wait_for and the TimeoutError handler run without suspending.
Finish(e, r) ==
    /\ pc' = "done"
    /\ exc' = e
    /\ ret' = r
    /\ outcome' = call_outcome(e, r, operation_timeout)
    /\ close_calls' = IF handler_closes(e) /\ ~closed THEN close_calls + 1 ELSE close_calls
    /\ closed' = (closed \/ handler_closes(e))
    /\ audit' = IF e.type = "LoginFailure"
                THEN Append(audit, log_auth_attempt(FALSE, "Invalid token"))
                ELSE audit

\* fetch_server_messages(server_name, hours, timeout) up to the first await:
\* the overall bound is fixed and the login task is created.
\* The look-back window is computed before the try block of the impl: an
\* OverflowError of the date arithmetic leaves the call as it is.
Call(timeout, hours) ==
    /\ UNCHANGED << unit, clock, pair >>
    /\ pc = "idle"
    /\ args' = [timeout |-> timeout, hours |-> hours]
    /\ operation_timeout' = overall_timeout(timeout)
    /\ IF in_datetime_range(start_time(clock, hours))
       THEN /\ pc' = "wait_ready"
            /\ window' = [start_time |-> start_time(clock, hours), end_time |-> clock]
            /\ login_task' = LoginTask("running", NoExc)
            /\ UNCHANGED << exc, outcome >>
       ELSE /\ pc' = "done"
            /\ exc' = Exc("OverflowError", <<>>)
            /\ outcome' = Error("OverflowError", "date value out of range", <<>>)
            /\ UNCHANGED << login_task, window >>
    /\ UNCHANGED << timer_fired, ready_timer_fired, ret, login_cancel_called,
                    login_awaited, ready_event, closed, close_calls,
                    max_concurrent_channels, semaphore, guild, tasks, audit >>

\* on_ready: the client reports ready.
OnReady ==
    /\ UNCHANGED << unit, args, window, pair >>
    /\ clock' = clock + 1
    /\ login_task.state = "running"
    /\ ~ready_event
    /\ ~closed
    /\ ready_event' = TRUE
    /\ audit' = Append(audit, log_auth_attempt(TRUE, "none"))
    /\ UNCHANGED << pc, operation_timeout, timer_fired, ready_timer_fired, exc, ret, outcome,
                    login_task, login_cancel_called, login_awaited, closed, close_calls,
                    max_concurrent_channels, semaphore, guild, tasks >>

\* client.start() ends with an exception.
LoginFails(e) ==
    /\ UNCHANGED << unit, args, window, clock, pair >>
    /\ login_task.state = "running"
    /\ ~closed
    /\ e \in (IF ready_event THEN ConnectedExceptions ELSE LoginExceptions)
    /\ login_task' = LoginTask("failed", e)
    /\ UNCHANGED << pc, operation_timeout, timer_fired, ready_timer_fired, exc, ret, outcome,
                    login_cancel_called, login_awaited, ready_event, closed, close_calls,
                    max_concurrent_channels, semaphore, guild, tasks, audit >>

\* client.start() returns because the client was closed.
LoginReturns ==
    /\ UNCHANGED << unit, args, window, clock, pair >>
    /\ login_task.state = "running"
    /\ pc = "closing"
    /\ login_task' = LoginTask("done", NoExc)
    /\ UNCHANGED << pc, operation_timeout, timer_fired, ready_timer_fired, exc, ret, outcome,
                    login_cancel_called, login_awaited, ready_event, closed, close_calls,
                    max_concurrent_channels, semaphore, guild, tasks, audit >>

\* _wait_until_ready: the 30 s wait_for expires before the ready event is set.
ReadyTimeout ==
    /\ UNCHANGED << unit, args, window, clock, pair >>
    /\ pc = "wait_ready"
    /\ ~ready_event
    /\ READY_WAIT_TIMEOUT <= operation_timeout
    /\ ready_timer_fired' = TRUE
    /\ EnterFinally(Exc("DiscordClientError", <<"Timed out waiting for Discord connection">>),
                    NoValue)
    /\ UNCHANGED << operation_timeout, timer_fired, outcome, login_task, login_cancel_called,
                    login_awaited, ready_event, max_concurrent_channels, semaphore, guild,
                    tasks, audit >>


\* ---------------------------------------------------------------- the gate
\* [ch for ch in guild.channels if isinstance(ch, discord.TextChannel)]: the ids
\* (positions in guild.channels) of the text channels, in enumeration order.
RECURSIVE text_channels_among(_, _)
text_channels_among(layout, n) ==
    IF n = 0 THEN <<>>
    ELSE IF layout[n] = "text" THEN Append(text_channels_among(layout, n - 1), n)
    ELSE text_channels_among(layout, n - 1)

text_channels(layout) == text_channels_among(layout, Len(layout))

\* One fetch_with_semaphore task.
NewTask(channel_id, after, before) ==
    [ channel_id |-> channel_id, after |-> after, before |-> before, state |-> "pending",
      messages |-> <<>>, seen |-> 0, yields |-> <<>>, err |-> "none", result |-> <<>> ]

\* The results in the order the fetches finished (the order of their api_call
\* audit events), as asyncio.as_completed would hand them over.
RECURSIVE api_calls(_)
api_calls(events) ==
    IF events = <<>> THEN <<>>
    ELSE IF Head(events).event = "api_call" THEN <<Head(events)>> \o api_calls(Tail(events))
    ELSE api_calls(Tail(events))

gather_results_as_completed(ts) ==
    LET calls == api_calls(audit)
        index_of(c) == CHOOSE i \in 1..Len(ts) : ts[i].channel_id = c
    IN [k \in 1..Len(calls) |->
            [channel_id |-> calls[k].arg[1], messages |-> ts[index_of(calls[k].arg[1])].result]]

\* asyncio.gather(*tasks): the results in the order of the awaitables given.
gather_results(ts) ==
    [i \in 1..Len(ts) |-> [channel_id |-> ts[i].channel_id, messages |-> ts[i].result]]

\* channels_with_messages without the filter.
all_channels(channel_results) == channel_results

\* [ch for ch in channel_results if ch.messages]
RECURSIVE non_empty(_)
non_empty(channel_results) ==
    IF channel_results = <<>> THEN <<>>
    ELSE IF Head(channel_results).messages # <<>>
         THEN <<Head(channel_results)>> \o non_empty(Tail(channel_results))
         ELSE non_empty(Tail(channel_results))

channels_with_messages(channel_results) == non_empty(channel_results)

\* The ServerDigestData the impl returns.
ServerDigestData(g, channel_results, w) ==
    [ server_name |-> g.name,
      server_id |-> g.id,
      channels |-> channels_with_messages(channel_results),
      start_time |-> w.start_time,
      end_time |-> w.end_time,
      total_messages |->
          SumSeq([i \in 1..Len(channels_with_messages(channel_results)) |->
                      Len(channels_with_messages(channel_results)[i].messages)]) ]

Terminal(t) == t.state \in {"done", "raised", "cancelled"}

TotalSeen == SumSeq([i \in 1..Len(tasks) |-> tasks[i].seen])

TotalErrors == Cardinality({i \in 1..Len(tasks) : tasks[i].err # "none"})

\* The ServerNotFoundError _find_server_by_name raises.
server_not_found(guilds, server_name) ==
    Exc("ServerNotFoundError", <<server_name, available_servers(guilds)>>)

\* The ready wait returns; _find_server_by_name and the channel enumeration run,
\* and the gate creates its semaphore and one task per text channel, up to
\* `await asyncio.gather(...)`. The guild list is what the client knows at this
\* moment; server_name is the argument of the call, first read here.
Resolve(guilds, server_name, layout) ==
    /\ UNCHANGED << unit, args, window, clock, pair >>
    /\ pc = "wait_ready"
    /\ ready_event
    /\ LET f == find_server_by_name(guilds, server_name)
           g == [name |-> guilds[f.index], id |-> f.index]
           chs == text_channels(layout)
       IN IF ~f.found
          THEN /\ EnterFinally(server_not_found(guilds, server_name), NoValue)
               /\ UNCHANGED << guild, tasks, semaphore, audit >>
          ELSE IF chs = <<>>
          THEN /\ EnterFinally(NoExc, ServerDigestData(g, <<>>, window))
               /\ guild' = g
               /\ semaphore' = max_concurrent_channels
               /\ audit' = Append(audit, log_rate_limit(max_concurrent_channels))
               /\ UNCHANGED tasks
          ELSE /\ pc' = "gather"
               /\ guild' = g
               /\ semaphore' = max_concurrent_channels
               /\ audit' = Append(audit, log_rate_limit(max_concurrent_channels))
               /\ tasks' = [i \in 1..Len(chs) |-> NewTask(chs[i], window.start_time, window.end_time)]
               /\ UNCHANGED << exc, ret, closed, close_calls >>
    /\ UNCHANGED << operation_timeout, timer_fired, ready_timer_fired, outcome, login_task,
                    login_cancel_called, login_awaited, ready_event, max_concurrent_channels >>

GateFrame ==
    UNCHANGED << pc, operation_timeout, timer_fired, ready_timer_fired, exc, ret, outcome,
                 login_task, login_cancel_called, login_awaited, ready_event, closed,
                 close_calls, max_concurrent_channels, guild, unit, args, window, clock, pair >>

\* A task runs for the first time: `async with semaphore` takes a slot at once
\* when the semaphore is not locked, and queues otherwise. Tasks are first run
\* in the order gather created them.
ChanStart(i) ==
    /\ pc # "done"
    /\ tasks[i].state = "pending"
    /\ \A j \in 1..(i - 1) : tasks[j].state # "pending"
    /\ IF locked(semaphore, tasks)
       THEN /\ tasks' = [tasks EXCEPT ![i].state = "waiting"]
            /\ UNCHANGED semaphore
       ELSE /\ tasks' = [tasks EXCEPT ![i].state = "fetching"]
            /\ semaphore' = semaphore - 1
    /\ UNCHANGED audit
    /\ GateFrame

\* The first queued task is woken with the slot a release freed.
ChanAcquire(i) ==
    /\ pc # "done"
    /\ tasks[i].state = "waiting"
    /\ \A j \in 1..(i - 1) : tasks[j].state # "waiting"
    /\ semaphore > 0
    /\ tasks' = [tasks EXCEPT ![i].state = "fetching"]
    /\ semaphore' = semaphore - 1
    /\ UNCHANGED audit
    /\ GateFrame

\* `if len(messages) % 100 == 0` after the append of an included message.
YIELD_EVERY == 100

\* The body of the history loop for one raw message: a skipped message goes
\* back to the head of the loop, an included one is appended, and
\* `await asyncio.sleep(0)` follows when the list has reached a multiple of 100.
\* `yields` lists the raw messages (by their count) after which the fetch yielded.
recv(t, message) ==
    [t EXCEPT !.seen = @ + 1,
              !.messages = IF skipped(message) THEN @ ELSE Append(@, to_message(message)),
              !.yields = IF ~skipped(message) /\ (Len(t.messages) + 1) % YIELD_EVERY = 0
                         THEN Append(@, t.seen + 1)
                         ELSE @]

\* One iteration of `async for message in channel.history(...)`. The limit of
\* the history (max_messages_per_channel, at least 100) is out of reach of the
\* MaxTotalRaw messages of a call.
ChanRecv(i, message) ==
    /\ pc # "done"
    /\ tasks[i].state = "fetching"
    /\ TotalSeen < MaxTotalRaw
    /\ tasks' = [tasks EXCEPT ![i] = recv(@, message)]
    /\ UNCHANGED semaphore
    /\ UNCHANGED audit
    /\ GateFrame

\* _fetch_channel_messages returns: the list is sorted into the result and
\* cleared, the slot is released, the API call is logged and the task ends.
fetch_returns(t, err) ==
    [t EXCEPT !.state = "done", !.err = err,
              !.result = sorted_by_timestamp(t.messages), !.messages = <<>>]

\* The history is exhausted.
ChanEnd(i) ==
    /\ pc # "done"
    /\ tasks[i].state = "fetching"
    /\ tasks' = [tasks EXCEPT ![i] = fetch_returns(@, "none")]
    /\ semaphore' = release(semaphore)
    /\ audit' = Append(audit, log_api_call(tasks[i].channel_id, TRUE))
    /\ GateFrame

\* history_raises with only `except discord.Forbidden`.
history_raises_http_uncaught(t, kind) ==
    IF kind = "Forbidden"
    THEN [t EXCEPT !.state = "done", !.err = kind,
                   !.result = sorted_by_timestamp(t.messages), !.messages = <<>>]
    ELSE [t EXCEPT !.state = "raised", !.err = kind, !.messages = <<>>]

\* What the history iteration raising `kind` does to the fetch: discord.Forbidden
\* and discord.HTTPException are caught after the loop, anything else leaves
\* _fetch_channel_messages and the `async with`.
history_raises(t, kind) ==
    IF kind \in {"Forbidden", "HTTPException"}
    THEN fetch_returns(t, kind)
    ELSE [t EXCEPT !.state = "raised", !.err = kind, !.messages = <<>>]

\* _fetch_channel_messages run from start to end over a whole history, which
\* ends normally (err = "none") or by raising err after its last message.
RECURSIVE run_history(_, _)
RECURSIVE run_rest(_, _, _)
run_history(t, history) ==
    IF history = <<>> THEN t
    ELSE IF Len(history) = 1 THEN recv(t, history[1])
    ELSE run_rest(run_history(t, SubSeq(history, 1, Len(history) \div 2)),
                  history, Len(history) \div 2)

\* The loop goes on with the messages after the first `done` ones.
run_rest(t, history, done) ==
    IF t.seen >= done
    THEN run_history(t, SubSeq(history, done + 1, Len(history)))
    ELSE t

fetch_channel_messages(channel_id, after, before, history, err) ==
    LET t == run_history([NewTask(channel_id, after, before) EXCEPT !.state = "fetching"],
                         history)
    IN IF err = "none" THEN fetch_returns(t, "none") ELSE history_raises(t, err)

\* The history raises and the API call is logged as failed, also when the
\* exception leaves the fetch.
ChanRaise_logged_as_failed(i, kind) ==
    /\ pc # "done"
    /\ tasks[i].state = "fetching"
    /\ TotalErrors < MaxHistoryErrors
    /\ tasks' = [tasks EXCEPT ![i] = history_raises(@, kind)]
    /\ semaphore' = release(semaphore)
    /\ audit' = Append(audit, log_api_call(tasks[i].channel_id, FALSE))
    /\ GateFrame

\* The history raises `kind`: the fetch absorbs it and returns, and the API
\* call is logged with success=True; or the exception leaves the fetch and the
\* `async with`, and the line that logs the API call is not reached.
ChanRaise(i, kind) ==
    /\ pc # "done"
    /\ tasks[i].state = "fetching"
    /\ TotalErrors < MaxHistoryErrors
    /\ tasks' = [tasks EXCEPT ![i] = history_raises(@, kind)]
    /\ semaphore' = release(semaphore)
    /\ audit' = IF tasks'[i].state = "done"
                THEN Append(audit, log_api_call(tasks[i].channel_id, TRUE))
                ELSE audit
    /\ GateFrame

\* gather's future resolves with every task done: the impl filters, totals and
\* returns, entering the finally clause. The finished tasks are dropped with
\* the frame of _fetch_channels_with_rate_limiting.
GatherReturns ==
    /\ UNCHANGED << unit, args, window, clock, pair >>
    /\ pc = "gather"
    /\ \A i \in 1..Len(tasks) : tasks[i].state = "done"
    /\ EnterFinally(NoExc, ServerDigestData(guild, gather_results(tasks), window))
    /\ tasks' = <<>>
    /\ UNCHANGED << operation_timeout, timer_fired, ready_timer_fired, outcome, login_task,
                    login_cancel_called, login_awaited, ready_event, max_concurrent_channels,
                    semaphore, guild, audit >>

\* gather's future fails with the exception of a task; the other tasks keep
\* running (gather does not cancel them). Every task has had its first run by
\* then: gather scheduled them all before any of them could raise.
GatherRaises ==
    /\ UNCHANGED << unit, args, window, clock, pair >>
    /\ pc = "gather"
    /\ \E i \in 1..Len(tasks) : tasks[i].state = "raised"
    /\ \A i \in 1..Len(tasks) : tasks[i].state # "pending"
    /\ EnterFinally(Exc("Exception", <<>>), NoValue)
    /\ UNCHANGED << operation_timeout, timer_fired, ready_timer_fired, outcome, login_task,
                    login_cancel_called, login_awaited, ready_event, max_concurrent_channels,
                    semaphore, guild, tasks, audit >>


\* ------------------------------------------------------------- the cleanup
\* A finally clause that drops the exception of a finished login task.
CloseCompletes_login_ignored ==
    /\ UNCHANGED << unit, args, window, clock, pair >>
    /\ pc = "closing"
    /\ login_cancel_called' = TRUE
    /\ IF login_task.state = "running"
       THEN /\ pc' = "await_login"
            /\ UNCHANGED << exc, ret, outcome, close_calls, closed, login_awaited, audit >>
       ELSE /\ login_awaited' = TRUE
            /\ Finish(exc, ret)
    /\ UNCHANGED << operation_timeout, timer_fired, ready_timer_fired, login_task,
                    ready_event, max_concurrent_channels, semaphore, guild, tasks >>

\* `await self._client.close()` of the finally clause returns; then
\* login_task.cancel() and `await login_task`: a finished task hands over its
\* result or exception at once, a running one is cancelled and awaited.
CloseCompletes ==
    /\ UNCHANGED << unit, args, window, clock, pair >>
    /\ pc = "closing"
    /\ login_cancel_called' = TRUE
    /\ CASE login_task.state = "running" ->
                /\ pc' = "await_login"
                /\ UNCHANGED << exc, ret, outcome, close_calls, closed, login_awaited, audit >>
         [] login_task.state = "failed" ->
                /\ login_awaited' = TRUE
                /\ Finish(login_task.exc, NoValue)
         [] OTHER ->
                /\ login_awaited' = TRUE
                /\ Finish(exc, ret)
    /\ UNCHANGED << operation_timeout, timer_fired, ready_timer_fired, login_task,
                    ready_event, max_concurrent_channels, semaphore, guild, tasks >>

\* The cancelled login task ends; `await login_task` raises CancelledError,
\* which `except asyncio.CancelledError: pass` absorbs, and the finally clause
\* is left with whatever was in flight before it.
LoginCancelled ==
    /\ UNCHANGED << unit, args, window, clock, pair >>
    /\ pc = "await_login"
    /\ login_task.state = "running"
    /\ login_task' = LoginTask("cancelled", NoExc)
    /\ login_awaited' = TRUE
    /\ Finish(exc, ret)
    /\ UNCHANGED << operation_timeout, timer_fired, ready_timer_fired, login_cancel_called,
                    ready_event, max_concurrent_channels, semaphore, guild, tasks >>

\* ------------------------------------------------------ the overall timeout
\* Cancelling the gather future cancels every task that has not finished; a
\* task inside `async with semaphore` gives its slot back on the way out. The
\* tasks, all finished now, are dropped with the frame of the gate.
cancelled_semaphore_kept(value, ts) == value

\* The free slots after every unfinished task was cancelled.
cancelled_semaphore(value, ts) ==
    value + Cardinality({i \in 1..Len(ts) : ts[i].state = "fetching"})

Cancelled == Exc("CancelledError", <<>>)

\* The bound of wait_for expires while the impl is suspended: the impl is
\* cancelled at the await it is waiting in.
OverallTimeout ==
    /\ UNCHANGED << unit, args, window, clock, pair >>
    /\ ~timer_fired
    /\ timer_fired' = TRUE
    /\ \/ /\ pc = "wait_ready"
          /\ operation_timeout <= READY_WAIT_TIMEOUT
          /\ EnterFinally(Cancelled, NoValue)
          /\ UNCHANGED << outcome, login_task, login_awaited, semaphore, tasks, audit >>
       \/ /\ pc = "gather"
          /\ EnterFinally(Cancelled, NoValue)
          /\ tasks' = <<>>
          /\ semaphore' = cancelled_semaphore(semaphore, tasks)
          /\ UNCHANGED << outcome, login_task, login_awaited, audit >>
       \/ \* inside `await self._client.close()`: the rest of the finally clause
          \* (login_task.cancel(), await login_task) is skipped
          /\ pc = "closing"
          /\ Finish(Cancelled, NoValue)
          /\ UNCHANGED << login_task, login_awaited, semaphore, tasks >>
       \/ \* inside `await login_task`: the CancelledError is raised there and
          \* absorbed by the except clause meant for the login task's own
          /\ pc = "await_login"
          /\ UNCHANGED << pc, exc, ret, outcome, close_calls, closed, login_task,
                          login_awaited, semaphore, tasks, audit >>
    /\ UNCHANGED << operation_timeout, ready_timer_fired, login_cancel_called, ready_event,
                    max_concurrent_channels, guild >>

\* ------------------------------------------------------------ specification
HistoryErrors == {"Forbidden", "HTTPException", "Exception"}

Next ==
    \/ \E timeout \in TimeoutArgs, hours \in Hours : Call(timeout, hours)
    \/ OnReady
    \/ \E e \in LoginExceptions : LoginFails(e)
    \/ LoginReturns
    \/ ReadyTimeout
    \/ \E guilds \in GuildLists, server_name \in ServerNames, layout \in ChannelLayouts :
           Resolve(guilds, server_name, layout)
    \/ \E i \in 1..Len(tasks) : ChanStart(i)
    \/ \E i \in 1..Len(tasks) : ChanAcquire(i)
    \/ \E i \in 1..Len(tasks), message \in RawMessages : ChanRecv(i, message)
    \/ \E i \in 1..Len(tasks) : ChanEnd(i)
    \/ \E i \in 1..Len(tasks), kind \in HistoryErrors : ChanRaise(i, kind)
    \/ GatherReturns
    \/ GatherRaises
    \/ CloseCompletes
    \/ LoginCancelled
    \/ OverallTimeout

Spec == Init /\ [][Next]_vars

\* The gate alone under fair scheduling: the session becomes ready, nothing
\* cancels the call and every channel history ends or raises an error the fetch
\* absorbs. The event loop runs every task that can run.
AbsorbedErrors == {"Forbidden", "HTTPException"}

GateNext ==
    \/ \E timeout \in TimeoutArgs, hours \in Hours : Call(timeout, hours)
    \/ OnReady
    \/ \E guilds \in GuildLists, server_name \in ServerNames, layout \in ChannelLayouts :
           Resolve(guilds, server_name, layout)
    \/ \E i \in 1..Len(tasks) : ChanStart(i)
    \/ \E i \in 1..Len(tasks) : ChanAcquire(i)
    \/ \E i \in 1..Len(tasks), message \in RawMessages : ChanRecv(i, message)
    \/ \E i \in 1..Len(tasks) : ChanEnd(i)
    \/ \E i \in 1..Len(tasks), kind \in AbsorbedErrors : ChanRaise(i, kind)
    \/ GatherReturns
    \/ CloseCompletes
    \/ LoginReturns
    \/ LoginCancelled

GateSpec ==
    /\ Init
    /\ [][GateNext]_vars
    /\ WF_vars(\E i \in 1..Len(tasks) : ChanStart(i))
    /\ WF_vars(\E i \in 1..Len(tasks) : ChanAcquire(i))
    /\ WF_vars(\E i \in 1..Len(tasks) : ChanEnd(i))
    /\ WF_vars(GatherReturns)

\* ------------------------------------------------- helpers called directly
\* Every action below is one direct call of a helper of the program with
\* arguments drawn from a bounded set; `unit` records the call and its outcome.
\* The fetcher itself is left alone.
MainFrame ==
    UNCHANGED << pc, operation_timeout, timer_fired, ready_timer_fired, exc, ret, outcome,
                 login_task, login_cancel_called, login_awaited, ready_event, closed,
                 close_calls, max_concurrent_channels, semaphore, guild, tasks, audit,
                 args, window, clock, pair >>

\* The lists of messages a channel fetch may return.
MessageLists ==
    { <<>>,
      << to_message(CHOOSE m \in RawMessages : m.id = 2) >>,
      << to_message(CHOOSE m \in RawMessages : m.id = 2),
         to_message(CHOOSE m \in RawMessages : m.id = 1) >> }

\* What the gate may hand to the impl: one ChannelMessages per text channel.
ChannelResults == SeqsUpTo(MessageLists, MaxChannels)

\* ch.channel_name of the channel with the given id.
channel_name(channel_id) ==
    CASE channel_id = 1 -> <<"T", "e">>
      [] channel_id = 2 -> <<"x">>
      [] OTHER -> <<"t", "E">>

\* The --channel option of the digest command.
ChannelOptions == { None, Some(<<"#", "t", "e">>), Some(<<"x">>), Some(<<"e">>) }

\* str.lstrip("#")
RECURSIVE lstrip_hash(_)
lstrip_hash(name) ==
    IF name # <<>> /\ Head(name) = "#" THEN lstrip_hash(Tail(name)) ELSE name

\* [ch for ch in data.channels if ch.channel_name.lower() == channel_lower]
RECURSIVE named(_, _)
named(channels, channel_lower) ==
    IF channels = <<>> THEN <<>>
    ELSE IF lower(channel_name(Head(channels).channel_id)) = channel_lower
         THEN <<Head(channels)>> \o named(Tail(channels), channel_lower)
         ELSE named(Tail(channels), channel_lower)

\* The digest command narrowing the data to --channel but keeping the total of
\* the whole server.
filter_channel_stale_total(data, channel) ==
    IF channel = None THEN Result(data)
    ELSE LET channel_lower == lstrip_hash(lower(channel[1]))
             matching_channels == named(data.channels, channel_lower)
         IN IF matching_channels = <<>>
            THEN Error("ClickException", "Channel not found", channel)
            ELSE Result([data EXCEPT !.channels = matching_channels])

\* The digest command after fetch_server_messages returned `data`: with
\* --channel the data is rebuilt from the channels of that name, and the
\* command fails when there is none.
filter_channel(data, channel) ==
    IF channel = None THEN Result(data)
    ELSE LET channel_lower == lstrip_hash(lower(channel[1]))
             matching_channels == named(data.channels, channel_lower)
         IN IF matching_channels = <<>>
            THEN Error("ClickException", "Channel not found", channel)
            ELSE Result([ server_name |-> data.server_name,
                          server_id |-> data.server_id,
                          channels |-> matching_channels,
                          start_time |-> data.start_time,
                          end_time |-> data.end_time,
                          total_messages |->
                              SumSeq([i \in 1..Len(matching_channels) |->
                                          Len(matching_channels[i].messages)]) ])

\* The ChannelMessages of the first n channels, the id of a channel being its
\* position.
RECURSIVE numbered(_, _)
numbered(results, n) ==
    IF n = 0 THEN <<>>
    ELSE Append(numbered(results, n - 1), [channel_id |-> n, messages |-> results[n]])

\* The impl builds its value from the results of the gate, and the digest
\* command narrows it.
UnitDigest(results, channel) ==
    /\ unit = NoCall
    /\ LET channel_results == numbered(results, Len(results))
           data == ServerDigestData([name |-> <<"T", "e">>, id |-> 1], channel_results,
                                    [start_time |-> start_time(Now, 24), end_time |-> Now])
       IN unit' = [ fn |-> "digest",
                    channel_results |-> channel_results,
                    channel |-> channel,
                    data |-> data,
                    result |-> filter_channel(data, channel) ]
    /\ MainFrame

\* Guild names and queries for the resolver called directly.
GuildNames == { <<"T", "e">>, <<"T", "e", "x">>, <<"t", "E">>, <<"x">> }

Queries == { <<"t", "e">>, <<"T", "E">>, <<"e">>, <<"x", "x">>, <<>> }

\* self._find_server_by_name(server_name) with self._client.guilds = guilds.
UnitFindServer(guilds, server_name) ==
    /\ unit = NoCall
    /\ unit' = [ fn |-> "_find_server_by_name",
                 guilds |-> guilds,
                 server_name |-> server_name,
                 result |-> find_server_by_name(guilds, server_name),
                 raised |-> IF find_server_by_name(guilds, server_name).found
                            THEN NoExc
                            ELSE server_not_found(guilds, server_name) ]
    /\ MainFrame

\* Further raw messages for the fetch called directly: an early one, content
\* over and at the limit, attachments over and at the limit, many reactions,
\* author names over and at the limit.
LongMessages ==
    { [id |-> 5, created_at |-> CreatedAt(1, 0), bot |-> FALSE,
       display_name |-> << Piece("n", 1) >>,
       content |-> << Piece("a", 1) >>, attachments |-> Files(0), reactions |-> Reactions(0)],
      [id |-> 6, created_at |-> CreatedAt(2, 5), bot |-> FALSE,
       display_name |-> << Piece("n", 1) >>,
       content |-> << Piece("a", MAX_MESSAGE_CONTENT_LENGTH), Piece("b", 1) >>,
       attachments |-> Files(0), reactions |-> Reactions(MAX_REACTIONS)],
      [id |-> 7, created_at |-> CreatedAt(1, 5), bot |-> FALSE,
       display_name |-> << Piece("n", MAX_AUTHOR_LENGTH), Piece("m", 1) >>,
       content |-> << Piece("a", MAX_MESSAGE_CONTENT_LENGTH - 1), Piece("b", 1) >>,
       attachments |-> Files(MAX_ATTACHMENTS + 2), reactions |-> Reactions(0)],
      [id |-> 8, created_at |-> CreatedAt(2, 0), bot |-> FALSE,
       display_name |-> << Piece("n", MAX_AUTHOR_LENGTH) >>,
       content |-> <<>>,
       attachments |-> Files(MAX_ATTACHMENTS), reactions |-> Reactions(MAX_REACTIONS + 1)],
      [id |-> 9, created_at |-> CreatedAt(1, 0), bot |-> TRUE,
       display_name |-> << Piece("n", 1) >>,
       content |-> <<>>, attachments |-> Files(1), reactions |-> Reactions(0)] }

\* Histories: up to MaxHistory different raw messages in any order.
Histories ==
    { h \in SeqsUpTo(RawMessages \cup LongMessages, MaxHistory) :
          \A i, j \in 1..Len(h) : i # j => h[i].id # h[j].id }

\* ----------------------------------------------------------- construction
MIN_TOKEN_LENGTH == 50

\* The characters str.strip() removes.
Whitespace == {" ", "\t", "\n"}

RECURSIVE lstrip(_)
lstrip(str) ==
    IF str # <<>> /\ Head(str).ch \in Whitespace THEN lstrip(Tail(str)) ELSE str

RECURSIVE rstrip(_)
rstrip(str) ==
    IF str # <<>> /\ str[Len(str)].ch \in Whitespace
    THEN rstrip(SubSeq(str, 1, Len(str) - 1))
    ELSE str

\* str.strip()
strip(str) == rstrip(lstrip(str))

\* _load_token measuring the token before it is trimmed.
load_token_untrimmed_length(environ_token) ==
    IF environ_token = None \/ environ_token = Some(<<>>)
    THEN [raised |-> Exc("DiscordClientError", <<"required">>), token |-> <<>>]
    ELSE IF str_len(environ_token[1]) < MIN_TOKEN_LENGTH
    THEN [raised |-> Exc("DiscordClientError", <<"too short">>), token |-> <<>>]
    ELSE [raised |-> NoExc, token |-> strip(environ_token[1])]

\* _load_token: os.environ.get("DISCORD_BOT_TOKEN") must be set and not empty,
\* and at least 50 characters long once trimmed.
load_token(environ_token) ==
    IF environ_token = None \/ environ_token = Some(<<>>)
    THEN [raised |-> Exc("DiscordClientError", <<"required">>), token |-> <<>>]
    ELSE IF str_len(strip(environ_token[1])) < MIN_TOKEN_LENGTH
    THEN [raised |-> Exc("DiscordClientError", <<"too short">>), token |-> <<>>]
    ELSE [raised |-> NoExc, token |-> strip(environ_token[1])]

\* Values of DISCORD_BOT_TOKEN: unset, empty, blank, short, one short of the
\* minimum with and without blanks around it, the minimum with and without
\* blanks around it and with a blank inside, and a usual token.
EnvironTokens ==
    { None,
      Some(<<>>),
      Some(<< Piece(" ", 3) >>),
      Some(<< Piece("x", 10) >>),
      Some(<< Piece("x", MIN_TOKEN_LENGTH - 1) >>),
      Some(<< Piece(" ", 1), Piece("x", MIN_TOKEN_LENGTH - 1), Piece("\n", 1) >>),
      Some(<< Piece("x", MIN_TOKEN_LENGTH) >>),
      Some(<< Piece("\t", 2), Piece("x", MIN_TOKEN_LENGTH), Piece(" ", 1) >>),
      Some(<< Piece("x", 20), Piece(" ", 1), Piece("y", 29) >>),
      Some(<< Piece("x", 70) >>) }

\* DiscordMessageFetcher(): the token is loaded first; the client object and
\* the ready event are created after it, and nothing is started.
UnitConstruct(environ_token) ==
    /\ unit = NoCall
    /\ LET loaded == load_token(environ_token)
       IN unit' = [ fn |-> "__init__",
                    environ_token |-> environ_token,
                    raised |-> loaded.raised,
                    token |-> loaded.token,
                    client_created |-> (loaded.raised = NoExc),
                    login_started |-> FALSE ]
    /\ MainFrame

\* ---------------------------------------------------------- configuration
DEFAULT_MAX_MESSAGES_PER_CHANNEL == 1000
DEFAULT_MAX_CONCURRENT_CHANNELS == 5
MIN_MESSAGES_PER_CHANNEL == 100
MAX_MESSAGES_PER_CHANNEL == 10000
MIN_CONCURRENT_CHANNELS == 1
MAX_CONCURRENT_CHANNELS == 20
MAX_TIMEOUT == 300

DecimalDigits == {"0", "1", "2", "3", "4", "5", "6", "7", "8", "9"}

digit_value(c) ==
    CASE
            c = "0" -> 0
         [] c = "1" -> 1
         [] c = "2" -> 2
         [] c = "3" -> 3
         [] c = "4" -> 4
         [] c = "5" -> 5
         [] c = "6" -> 6
         [] c = "7" -> 7
         [] c = "8" -> 8
         [] c = "9" -> 9

\* int(value) read character by character: blanks, an optional sign, then
\* digits, single underscores allowed between digits, then blanks. The result
\* is None where int() raises ValueError.
RECURSIVE int_scan(_, _, _, _)
int_scan(chars, phase, sign, acc) ==
    IF chars = <<>>
    THEN IF phase \in {"digit", "trail"} THEN Some(sign * acc) ELSE None
    ELSE LET c == Head(chars)
             rest == Tail(chars)
         IN IF c \in Whitespace
            THEN IF phase = "lead" THEN int_scan(rest, "lead", sign, acc)
                 ELSE IF phase \in {"digit", "trail"}
                 THEN int_scan(rest, "trail", sign, acc)
                 ELSE None
            ELSE IF c \in {"+", "-"}
            THEN IF phase = "lead"
                 THEN int_scan(rest, "sign", IF c = "-" THEN -1 ELSE 1, acc)
                 ELSE None
            ELSE IF c \in DecimalDigits
            THEN IF phase \in {"lead", "sign", "digit", "underscore"}
                 THEN int_scan(rest, "digit", sign, acc * 10 + digit_value(c))
                 ELSE None
            ELSE IF c = "_" /\ phase = "digit"
            THEN int_scan(rest, "underscore", sign, acc)
            ELSE None

int(value) == int_scan(value, "lead", 1, 0)

\* _get_env_int bringing an out-of-range value to the nearest limit.
get_env_int_clamped(value, default, min_val, max_val) ==
    IF value = None THEN default
    ELSE LET int_val == int(value[1])
         IN IF int_val = None THEN default
            ELSE IF int_val[1] < min_val THEN min_val
            ELSE IF int_val[1] > max_val THEN max_val
            ELSE int_val[1]

\* _get_env_int: the ValueError of int() is caught inside.
get_env_int(value, default, min_val, max_val) ==
    IF value = None THEN default
    ELSE LET int_val == int(value[1])
         IN IF int_val = None THEN default
            ELSE IF int_val[1] < min_val \/ int_val[1] > max_val THEN default
            ELSE int_val[1]

\* float(n) of an integer: its whole part and a zero fraction.
float(n) == [whole |-> n, fraction |-> 0]

\* The three configuration properties, and the direct call of the unit tests.
Settings ==
    { [ name |-> "max_messages_per_channel", env |-> "DISCORD_CHAT_MAX_MESSAGES",
        default |-> DEFAULT_MAX_MESSAGES_PER_CHANNEL,
        min_val |-> MIN_MESSAGES_PER_CHANNEL, max_val |-> MAX_MESSAGES_PER_CHANNEL ],
      [ name |-> "max_concurrent_channels", env |-> "DISCORD_CHAT_MAX_CONCURRENT",
        default |-> DEFAULT_MAX_CONCURRENT_CHANNELS,
        min_val |-> MIN_CONCURRENT_CHANNELS, max_val |-> MAX_CONCURRENT_CHANNELS ],
      [ name |-> "operation_timeout", env |-> "DISCORD_CHAT_TIMEOUT",
        default |-> DEFAULT_TIMEOUT,
        min_val |-> MIN_TIMEOUT, max_val |-> MAX_TIMEOUT ],
      [ name |-> "_get_env_int", env |-> "TEST_VAR",
        default |-> 10, min_val |-> 1, max_val |-> 100 ] }

\* Values of the environment variable: unset, or a string.
EnvValues ==
    { None,
      Some(<<>>),
      Some(<<"a", "b", "c">>),
      Some(<<"1", "2", ".", "5">>),
      Some(<<"9", "9">>),
      Some(<<"1", "0", "0">>),
      Some(<<"5", "0", "0">>),
      Some(<<"1", "0", "0", "0", "0">>),
      Some(<<"1", "0", "0", "0", "1">>),
      Some(<<"0">>),
      Some(<<"1">>),
      Some(<<"2", "0">>),
      Some(<<"2", "1">>),
      Some(<<"9">>),
      Some(<<"1", "0">>),
      Some(<<"5", "0">>),
      Some(<<"2", "0", "0">>),
      Some(<<"3", "0", "0">>),
      Some(<<"3", "0", "1">>),
      Some(<<"-", "5">>),
      Some(<<"+", "1", "5">>),
      Some(<<" ", "1", "5", " ">>),
      Some(<<"+", " ", "1", "5">>),
      Some(<<"1", " ", "5">>),
      Some(<<"1", "_", "0", "0", "0">>),
      Some(<<"1", "_", "_", "0">>),
      Some(<<"_", "1", "5">>),
      Some(<<"1", "5", "_">>),
      Some(<<"0", "1", "5">>),
      Some(<<"1", "5", "x">>) }

\* One read of a configuration property, or one direct call of _get_env_int.
UnitGetEnvInt(value, setting) ==
    /\ unit = NoCall
    /\ LET result == get_env_int(value, setting.default, setting.min_val, setting.max_val)
       IN unit' = [ fn |-> "_get_env_int",
                    name |-> setting.name,
                    value |-> value,
                    default |-> setting.default,
                    min_val |-> setting.min_val,
                    max_val |-> setting.max_val,
                    raised |-> NoExc,
                    result |-> result,
                    property |-> IF setting.name = "operation_timeout"
                                 THEN float(result)
                                 ELSE [whole |-> result, fraction |-> 0] ]
    /\ MainFrame

\* ------------------------------------------- the channel fetch, called directly
\* self.max_messages_per_channel with DISCORD_CHAT_MAX_MESSAGES set to value.
max_messages_per_channel(value) ==
    get_env_int(value, DEFAULT_MAX_MESSAGES_PER_CHANNEL,
                MIN_MESSAGES_PER_CHANNEL, MAX_MESSAGES_PER_CHANNEL)

\* channel.history that ignores its limit.
channel_history_unlimited(channel, limit) == channel

\* channel.history(after=..., before=..., limit=limit): the messages of the
\* channel in the window, at most `limit` of them.
channel_history(channel, limit) ==
    SubSeq(channel, 1, IF Len(channel) > limit THEN limit ELSE Len(channel))

\* self._fetch_channel_messages(channel, after, before) with the channel holding
\* the messages of `history` in the window, and the iteration ending or raising
\* err after the last message delivered. DISCORD_CHAT_MAX_MESSAGES is unset.
UnitFetchChannel(history, err) ==
    /\ unit = NoCall
    /\ LET limit == max_messages_per_channel(None)
           delivered == channel_history(history, limit)
       IN unit' = [ fn |-> "_fetch_channel_messages",
                    channel |-> history,
                    limit |-> limit,
                    history |-> delivered,
                    err |-> err,
                    task |-> fetch_channel_messages(1, start_time(Now, 24), Now, delivered, err) ]
    /\ MainFrame

\* A busy channel: n messages with content, every `bots`-th of them from a bot
\* (none when bots = 0).
BusyChannel(n, bots) ==
    [k \in 1..n |->
        [id |-> 100 + k, created_at |-> CreatedAt(k % 3, 0),
         bot |-> (bots # 0 /\ k % bots = 0),
         display_name |-> << Piece("n", 1) >>,
         content |-> << Piece("a", 1) >>, attachments |-> Files(0), reactions |-> Reactions(0)]]

BusyLengths == { YIELD_EVERY - 1, YIELD_EVERY, YIELD_EVERY + 1, YIELD_EVERY + 20 }

BotShares == { 0, 6 }

\* DISCORD_CHAT_MAX_MESSAGES: unset, at the minimum, above the longest channel,
\* below the minimum.
MessageLimits ==
    { None, Some(<<"1", "0", "0">>), Some(<<"1", "5", "0">>), Some(<<"5", "0">>) }

\* self._fetch_channel_messages on a busy channel with DISCORD_CHAT_MAX_MESSAGES
\* set to value.
UnitFetchBusy(n, bots, value) ==
    /\ unit = NoCall
    /\ LET limit == max_messages_per_channel(value)
           channel == BusyChannel(n, bots)
           delivered == channel_history(channel, limit)
       IN unit' = [ fn |-> "_fetch_channel_messages",
                    channel |-> channel,
                    limit |-> limit,
                    history |-> delivered,
                    err |-> "none",
                    task |-> fetch_channel_messages(1, start_time(Now, 24), Now,
                                                    delivered, "none") ]
    /\ MainFrame

\* ---------------------------------------------------------- the ready wait
\* The on_ready handler registered by __init__: self._ready_event.set(), then
\* log_auth_attempt(True, "Discord").
on_ready(u) ==
    [u EXCEPT !.ready_event = TRUE,
              !.audit = Append(@, log_auth_attempt(TRUE, "none"))]

\* wait_until_ready that only returns when the event was set on entry.
wait_until_ready_no_wakeup(u) ==
    IF u.state = "waiting" /\ u.elapsed >= u.timeout
    THEN [u EXCEPT !.state = "raised",
                   !.raised = Exc("DiscordClientError",
                                  <<"Timed out waiting for Discord connection">>)]
    ELSE u

\* _wait_until_ready as the event loop resumes it: wait_for returns once the
\* event is set, and raises TimeoutError, turned into DiscordClientError, once
\* `timeout` has elapsed with the event still unset.
wait_until_ready(u) ==
    IF u.state = "waiting" /\ u.ready_event
    THEN [u EXCEPT !.state = "returned"]
    ELSE IF u.state = "waiting" /\ u.elapsed >= u.timeout
    THEN [u EXCEPT !.state = "raised",
                   !.raised = Exc("DiscordClientError",
                                  <<"Timed out waiting for Discord connection">>)]
    ELSE u

\* The `timeout` arguments tried, in ticks of the clock.
ReadyTimeouts == {1, 2, 3}

\* A fetcher right after construction, about to wait.
NewWait(timeout) ==
    [ fn |-> "_wait_until_ready", timeout |-> timeout, elapsed |-> 0, state |-> "waiting",
      ready_event |-> FALSE, ready_at |-> None, audit |-> <<>>, raised |-> NoExc,
      closed |-> FALSE, calls |-> 1 ]

\* await self._wait_until_ready(timeout), with the client ready already (the
\* handler has run) or not yet.
UnitWaitUntilReady(timeout, ready) ==
    /\ unit = NoCall
    /\ unit' = IF ready
               THEN wait_until_ready([on_ready(NewWait(timeout)) EXCEPT !.ready_at = Some(0)])
               ELSE NewWait(timeout)
    /\ MainFrame

\* The client becomes ready: the handler runs, and a waiter is resumed. A
\* closed client gets no ready notification.
UnitOnReady ==
    /\ unit.fn = "_wait_until_ready"
    /\ ~unit.closed
    /\ ~unit.ready_event
    /\ unit.ready_at = None
    /\ unit' = wait_until_ready([on_ready(unit) EXCEPT !.ready_at = Some(unit.elapsed)])
    /\ MainFrame

\* One tick of the clock passes while the wait is suspended.
UnitWaitTick ==
    /\ unit.fn = "_wait_until_ready"
    /\ unit.state = "waiting"
    /\ unit' = wait_until_ready([unit EXCEPT !.elapsed = @ + 1])
    /\ MainFrame

\* A close that would also reset the ready signal of the fetcher.
close_session_clearing(u) == [u EXCEPT !.closed = TRUE, !.ready_event = FALSE]

\* The finally clause of the call the wait belonged to: await
\* self._client.close(). The event is the fetcher's own, created once by
\* __init__, and nothing but on_ready touches it.
close_session(u) == [u EXCEPT !.closed = TRUE]

\* The call the wait belonged to ends, closing the client, and
\* fetch_server_messages is called again on the same fetcher: the
\* _wait_until_ready(timeout) of the second call, with the event as the first
\* call left it and the clock of the wait starting anew.
wait_again(u, timeout) ==
    wait_until_ready([close_session(u) EXCEPT !.calls = @ + 1,
                                              !.timeout = timeout,
                                              !.elapsed = 0,
                                              !.state = "waiting",
                                              !.raised = NoExc,
                                              !.ready_at = IF close_session(u).ready_event
                                                           THEN Some(0) ELSE None])

UnitCallAgain(timeout) ==
    /\ unit.fn = "_wait_until_ready"
    /\ unit.state \in {"returned", "raised"}
    /\ unit.calls = 1
    /\ unit' = wait_again(unit, timeout)
    /\ MainFrame

UnitNext ==
    \/ \E timeout \in ReadyTimeouts, ready \in BOOLEAN : UnitWaitUntilReady(timeout, ready)
    \/ UnitOnReady
    \/ UnitWaitTick
    \/ \E timeout \in ReadyTimeouts : UnitCallAgain(timeout)
    \/ \E value \in EnvValues, setting \in Settings : UnitGetEnvInt(value, setting)
    \/ \E environ_token \in EnvironTokens : UnitConstruct(environ_token)
    \/ \E history \in Histories, err \in {"none"} \cup HistoryErrors :
           UnitFetchChannel(history, err)
    \/ \E n \in BusyLengths, bots \in BotShares, value \in MessageLimits :
           UnitFetchBusy(n, bots, value)
    \/ \E guilds \in SeqsUpTo(GuildNames, MaxGuilds), server_name \in Queries :
           UnitFindServer(guilds, server_name)
    \/ \E results \in ChannelResults, channel \in ChannelOptions :
           UnitDigest(results, channel)

UnitSpec == Init /\ [][UnitNext]_vars

\* ------------------------------------------------- two concurrent fetchers
\* asyncio.run(main) with two fetchers, each running fetch_server_messages in
\* its own task. `pair` holds the two calls and the objects they use: the
\* semaphores and the clients, each named after the fetcher that created it.
PairFrame ==
    UNCHANGED << pc, operation_timeout, timer_fired, ready_timer_fired, exc, ret, outcome,
                 login_task, login_cancel_called, login_awaited, ready_event, closed,
                 close_calls, max_concurrent_channels, semaphore, guild, tasks, audit,
                 unit, args, window, clock >>

\* One semaphore for every fetcher of the process.
semaphore_of_process(f) == 1

\* The semaphore a call of the gate uses: the local `semaphore` it creates.
semaphore_of(f) == f

\* The client a fetcher uses and closes: self._client, created by __init__.
client_of(f) == f

PendingTask == [state |-> "pending"]

\* Fetcher f reaches the gate with m text channels and max_concurrent_channels
\* = limit: asyncio.Semaphore(limit) and one task per channel.
PairGate(f, limit, m) ==
    /\ pair.calls[f].pc = "idle"
    /\ pair' = [pair EXCEPT
                    !.calls[f] = [pc |-> "gather", limit |-> limit,
                                  tasks |-> [i \in 1..m |-> PendingTask]],
                    !.semaphores[semaphore_of(f)] = limit]
    /\ PairFrame

\* A task of f runs for the first time: `async with semaphore`.
PairStart(f, i) ==
    /\ pair.calls[f].pc = "gather"
    /\ pair.calls[f].tasks[i].state = "pending"
    /\ \A j \in 1..(i - 1) : pair.calls[f].tasks[j].state # "pending"
    /\ IF locked(pair.semaphores[semaphore_of(f)], pair.calls[f].tasks)
       THEN pair' = [pair EXCEPT !.calls[f].tasks[i].state = "waiting"]
       ELSE pair' = [pair EXCEPT !.calls[f].tasks[i].state = "fetching",
                                 !.semaphores[semaphore_of(f)] = @ - 1]
    /\ PairFrame

\* The first queued task of f is woken with a freed slot.
PairAcquire(f, i) ==
    /\ pair.calls[f].pc = "gather"
    /\ pair.calls[f].tasks[i].state = "waiting"
    /\ \A j \in 1..(i - 1) : pair.calls[f].tasks[j].state # "waiting"
    /\ pair.semaphores[semaphore_of(f)] > 0
    /\ pair' = [pair EXCEPT !.calls[f].tasks[i].state = "fetching",
                            !.semaphores[semaphore_of(f)] = @ - 1]
    /\ PairFrame

\* A fetch of f returns and leaves `async with semaphore`.
PairEnd(f, i) ==
    /\ pair.calls[f].pc = "gather"
    /\ pair.calls[f].tasks[i].state = "fetching"
    /\ pair' = [pair EXCEPT !.calls[f].tasks[i].state = "done",
                            !.semaphores[semaphore_of(f)] = release(@)]
    /\ PairFrame

\* gather of f returns; the finally clause closes the client of f.
PairReturns(f) ==
    /\ pair.calls[f].pc = "gather"
    /\ \A i \in 1..Len(pair.calls[f].tasks) : pair.calls[f].tasks[i].state = "done"
    /\ pair' = [pair EXCEPT !.calls[f].pc = "done",
                            !.closed[client_of(f)] = TRUE]
    /\ PairFrame

\* The overall timeout of f expires in the gate: its unfinished tasks are
\* cancelled, giving their slots back, and its client is closed.
PairTimeout(f) ==
    /\ pair.calls[f].pc = "gather"
    /\ pair' = [pair EXCEPT
                    !.calls[f].pc = "done",
                    !.calls[f].tasks =
                        [i \in 1..Len(@) |->
                            IF @[i].state = "done" THEN @[i] ELSE [state |-> "cancelled"]],
                    !.semaphores[semaphore_of(f)] =
                        cancelled_semaphore(@, pair.calls[f].tasks),
                    !.closed[client_of(f)] = TRUE]
    /\ PairFrame

PairNext ==
    \/ \E f \in Fetchers, limit \in 1..MaxLimit, m \in 1..MaxChannels : PairGate(f, limit, m)
    \/ \E f \in Fetchers : \E i \in 1..Len(pair.calls[f].tasks) : PairStart(f, i)
    \/ \E f \in Fetchers : \E i \in 1..Len(pair.calls[f].tasks) : PairAcquire(f, i)
    \/ \E f \in Fetchers : \E i \in 1..Len(pair.calls[f].tasks) : PairEnd(f, i)
    \/ \E f \in Fetchers : PairReturns(f)
    \/ \E f \in Fetchers : PairTimeout(f)

PairSpec == Init /\ [][PairNext]_vars

\* ------------------------------------------------------------------ claims
InFlight == Cardinality({i \in 1..Len(tasks) : tasks[i].state = "fetching"})

ApiCalls(c) ==
    Cardinality({k \in 1..Len(audit) :
                     audit[k].event = "api_call" /\ audit[k].arg = <<c>>})

ApiCallCount == Cardinality({k \in 1..Len(audit) : audit[k].event = "api_call"})

OperationTimeoutError ==
    Error("DiscordClientError", "Operation timed out after", <<operation_timeout>>)

ConnectionTimeoutError ==
    Error("DiscordClientError", "Timed out waiting for Discord connection", <<>>)

\* The step in which gather hands its results to the impl.
GateReturnsStep == pc = "gather" /\ pc' = "closing" /\ exc' = NoExc

\* C1: in every reachable state the number of _fetch_channel_messages
\* invocations that have started and not finished is at most the limit N.
C1_ConcurrencyBound == InFlight <= max_concurrent_channels

\* C1 witness: more channels than slots, every slot taken, a task queued.
C1_Witness ==
    /\ InFlight = max_concurrent_channels
    /\ \E i \in 1..Len(tasks) : tasks[i].state = "waiting"

\* C2 (as claimed): whenever the overall timeout expired during the call, the
\* close routine ran exactly once and the call failed with OperationTimeout
\* naming the bound in force.
C2_TimeoutCleanup ==
    (pc = "done" /\ timer_fired) =>
        (close_calls = 1 /\ outcome = OperationTimeoutError)

\* C3 (as claimed): when the call has returned or raised, close was invoked and
\* the login task was cancelled or had finished, and was awaited.
C3_CleanupOnEveryExit ==
    (pc = "done" /\ login_task.state # "not_started") =>
        /\ close_calls >= 1
        /\ login_task.state \in {"cancelled", "done", "failed"}
        /\ login_awaited

\* C4 (as claimed): a finished call either returns the ServerDigestData built
\* from the completed fetches or raises one DiscordClientError (or subclass);
\* no error of another type reaches the caller.
C4_ResultOrTypedError ==
    pc = "done" =>
        \/ outcome.kind = "result" /\ exc = NoExc /\ outcome.value = ret
        \/ /\ outcome.kind = "error"
           /\ exc # NoExc
           /\ outcome.type \in {"DiscordClientError", "ServerNotFoundError"}

\* C5 (as claimed): when the resolver raised ServerNotFoundError, the caller
\* gets a ServerNotFoundError whose message lists the known servers.
C5_ServerNotFoundSurfaces ==
    (pc = "done" /\ exc.type = "ServerNotFoundError") =>
        (outcome.type = "ServerNotFoundError" /\ outcome.arg = exc.detail)

\* C6 (as claimed, for the ready-wait timeout firing, the overall timeout not
\* and the login task not having failed by itself): the session is closed, the
\* login task cancelled, and the caller gets the ConnectionTimeout error.
C6_ReadyTimeoutSurfaces ==
    (pc = "done" /\ ready_timer_fired /\ ~timer_fired /\ login_task.exc = NoExc) =>
        /\ closed
        /\ login_task.state # "running"
        /\ outcome = ConnectionTimeoutError

\* C7: a Forbidden or HTTP error of one channel history ends that fetch as a
\* normal return, changes no other task and leaves the main flow where it is;
\* and the gate hands over the messages of every channel that has some.
C7_Absorbed ==
    \A i \in 1..Len(tasks) :
        tasks[i].err \in AbsorbedErrors => tasks[i].state = "done"

C7_Step ==
    /\ \A i \in 1..Len(tasks) :
           (Len(tasks') = Len(tasks) /\ tasks[i].err = "none"
                                     /\ tasks'[i].err \in AbsorbedErrors) =>
               /\ tasks'[i].state = "done"
               /\ pc' = pc
               /\ exc' = exc
               /\ \A j \in 1..Len(tasks) : j # i => tasks'[j] = tasks[j]
    /\ GateReturnsStep =>
           \A j \in 1..Len(tasks) :
               tasks[j].result # <<>> =>
                   \E k \in 1..Len(ret'.channels) :
                       /\ ret'.channels[k].channel_id = tasks[j].channel_id
                       /\ ret'.channels[k].messages = tasks[j].result

C7_ChannelErrorsAbsorbed == [](C7_Absorbed) /\ [][C7_Step]_vars

\* C7 witness: the gate is about to return; one channel absorbed an HTTP error
\* and another one has messages.
C7_Witness ==
    /\ pc = "gather"
    /\ \A i \in 1..Len(tasks) : tasks[i].state = "done"
    /\ \E i, j \in 1..Len(tasks) :
           /\ tasks[i].err = "HTTPException"
           /\ tasks[j].err = "none"
           /\ tasks[j].result # <<>>

\* C8 (as claimed): a fetch whose history raised Forbidden or an HTTP error
\* returns an empty messages list.
C8_ErrorYieldsEmpty ==
    \A i \in 1..Len(tasks) :
        (tasks[i].state = "done" /\ tasks[i].err \in AbsorbedErrors) =>
            tasks[i].result = <<>>

\* C9: whatever the order in which the fetches finished, the channels of the
\* digest carry the messages of their own channel and stand in the order the
\* guild enumerates them.
C9_Step ==
    GateReturnsStep =>
        /\ \A k \in 1..Len(ret'.channels) :
               \E i \in 1..Len(tasks) :
                   /\ tasks[i].channel_id = ret'.channels[k].channel_id
                   /\ tasks[i].result = ret'.channels[k].messages
                   /\ \A k2 \in 1..(k - 1) :
                          \E i2 \in 1..(i - 1) :
                              tasks[i2].channel_id = ret'.channels[k2].channel_id
        /\ \A k \in 1..Len(ret'.channels), k2 \in 1..Len(ret'.channels) :
               k < k2 => ret'.channels[k].channel_id < ret'.channels[k2].channel_id

C9_Ordered ==
    outcome.kind = "result" =>
        \A k \in 1..Len(outcome.value.channels), k2 \in 1..Len(outcome.value.channels) :
            k < k2 => outcome.value.channels[k].channel_id
                          < outcome.value.channels[k2].channel_id

C9_DiscoveryOrder == [](C9_Ordered) /\ [][C9_Step]_vars

\* C9 witness: the second channel finished before the first, and the digest
\* returned holds both.
C9_Witness ==
    /\ pc = "closing"
    /\ exc = NoExc
    /\ Len(ret.channels) = 2
    /\ \E k, k2 \in 1..Len(audit) :
           /\ k < k2
           /\ audit[k].event = "api_call"
           /\ audit[k2].event = "api_call"
           /\ audit[k].arg[1] > audit[k2].arg[1]

\* C10: under fair scheduling, with the call not cancelled and every history
\* ending, a gate that was entered returns; when it returns it hands over one
\* result per channel and each channel has been fetched exactly once.
C10_Step ==
    GateReturnsStep =>
        /\ Len(gather_results(tasks)) = Len(tasks)
        /\ ApiCallCount = Len(tasks)
        /\ \A i \in 1..Len(tasks) :
               /\ tasks[i].state = "done"
               /\ ApiCalls(tasks[i].channel_id) = 1

C10_GateTerminates ==
    /\ (pc = "gather") ~> (pc = "closing" /\ exc = NoExc)
    /\ [][C10_Step]_vars

\* C10 witness: more channels than slots, and the gate has returned with one
\* fetch per channel.
C10_Witness ==
    /\ pc = "closing"
    /\ exc = NoExc
    /\ max_concurrent_channels = 1
    /\ ApiCallCount = 2

\* The number of messages of a digest, counted message by message.
CountMessages(data) ==
    Cardinality({ p \in (1..Len(data.channels)) \X (1..(MaxTotalRaw + 1)) :
                      p[2] <= Len(data.channels[p[1]].messages) })

\* C11: total_messages equals the number of messages over the channels, in the
\* value the impl builds and in the value the digest command rebuilds for
\* --channel.
C11_TotalIsSum ==
    unit.fn = "digest" =>
        /\ unit.data.total_messages = CountMessages(unit.data)
        /\ unit.result.kind = "result" =>
               unit.result.value.total_messages = CountMessages(unit.result.value)

\* C11 witness: the command narrowed a digest of two channels with three
\* messages to one channel with fewer.
C11_Witness ==
    /\ unit.fn = "digest"
    /\ unit.channel # None
    /\ unit.result.kind = "result"
    /\ Len(unit.data.channels) = 2
    /\ unit.data.total_messages = 3
    /\ unit.result.value.total_messages < unit.data.total_messages

\* C12: every channel of a digest the impl returns has at least one message,
\* and every fetched text channel whose result has a message is in the digest.
C12_NoEmptyChannel ==
    ret # NoValue => \A k \in 1..Len(ret.channels) : ret.channels[k].messages # <<>>

C12_Step ==
    GateReturnsStep =>
        /\ \A i \in 1..Len(tasks) :
               tasks[i].result # <<>> =>
                   Cardinality({k \in 1..Len(ret'.channels) :
                                    ret'.channels[k].channel_id = tasks[i].channel_id}) = 1
        /\ \A k \in 1..Len(ret'.channels) :
               \E i \in 1..Len(tasks) :
                   /\ tasks[i].channel_id = ret'.channels[k].channel_id
                   /\ tasks[i].result # <<>>

C12_EmptyChannelsExcluded == [](C12_NoEmptyChannel) /\ [][C12_Step]_vars

\* C12 witness: two channels were fetched, one of them has no qualifying
\* message, and the digest holds the other one only.
C12_Witness ==
    /\ pc = "closing"
    /\ ret # NoValue
    /\ ApiCallCount = 2
    /\ Len(ret.channels) = 1

\* Case-insensitive equality of two names, letter by letter.
SameLetter(a, b) ==
    \/ a = b
    \/ {a, b} = {"T", "t"}
    \/ {a, b} = {"E", "e"}

EqualIgnoringCase(a, b) ==
    Len(a) = Len(b) /\ \A i \in 1..Len(a) : SameLetter(a[i], b[i])

\* needle occurs in hay, ignoring case.
ContainsIgnoringCase(hay, needle) ==
    \E from \in 1..(Len(hay) + 1) :
        /\ from + Len(needle) - 1 <= Len(hay)
        /\ EqualIgnoringCase(SubSeq(hay, from, from + Len(needle) - 1), needle)

ExactMatches == {i \in 1..Len(unit.guilds) : EqualIgnoringCase(unit.guilds[i], unit.server_name)}

PartialMatches ==
    {i \in 1..Len(unit.guilds) : ContainsIgnoringCase(unit.guilds[i], unit.server_name)}

\* C13: when a server's name equals the query ignoring case, the resolver
\* returns such a server (the first one), wherever it stands and whatever
\* comes before it.
C13_ExactMatchFirst ==
    (unit.fn = "_find_server_by_name" /\ ExactMatches # {}) =>
        /\ unit.result.found
        /\ unit.raised = NoExc
        /\ unit.result.index \in ExactMatches
        /\ \A i \in ExactMatches : unit.result.index <= i

\* C13 witness: a server that merely contains the query comes before the one
\* that equals it, and the resolver returned the latter.
C13_Witness ==
    /\ unit.fn = "_find_server_by_name"
    /\ unit.result.found
    /\ unit.result.index = 2
    /\ 2 \in ExactMatches
    /\ 1 \in PartialMatches \ ExactMatches

\* C14: when no server's name equals the query ignoring case, the resolver
\* returns the first server containing the query; when there is none it raises
\* ServerNotFoundError, returns no server, and the message lists every known
\* server name, or 'None' when there are no servers.
C14_PartialThenNotFound ==
    (unit.fn = "_find_server_by_name" /\ ExactMatches = {}) =>
        IF PartialMatches # {}
        THEN /\ unit.result.found
             /\ unit.raised = NoExc
             /\ unit.result.index \in PartialMatches
             /\ \A i \in PartialMatches : unit.result.index <= i
        ELSE /\ ~unit.result.found
             /\ unit.raised.type = "ServerNotFoundError"
             /\ unit.raised.detail[1] = unit.server_name
             /\ \A i \in 1..Len(unit.guilds) :
                    str_in(unit.guilds[i], unit.raised.detail[2])
             /\ unit.guilds = <<>> => unit.raised.detail[2] = <<"N", "o", "n", "e">>
             /\ unit.guilds # <<>> =>
                    Len(unit.raised.detail[2]) =
                        SumSeq([i \in 1..Len(unit.guilds) |-> Len(unit.guilds[i])])
                            + 2 * (Len(unit.guilds) - 1)

\* C14 witness: no server equals the query, two contain it, and the resolver
\* returned the first of the two.
C14_Witness ==
    /\ unit.fn = "_find_server_by_name"
    /\ ExactMatches = {}
    /\ PartialMatches = {1, 2}
    /\ unit.result.index = 1

\* The raw message of the history that has the given id.
RawOf(id) == CHOOSE m \in Range(unit.history) : m.id = id

\* The instant of a raw message, in microseconds.
Instant(message) == message.created_at.second * 10 + message.created_at.microsecond

\* A raw message qualifies: its author is no bot and it has content or an
\* attachment.
Qualifies(message) ==
    /\ ~message.bot
    /\ str_len(message.content) > 0 \/ Len(message.attachments) > 0

Returned == unit.fn = "_fetch_channel_messages" /\ unit.task.state = "done"

\* C15: whatever the order of the history, the messages returned are in
\* non-decreasing order of time and are exactly the qualifying messages, each once.
C15_SortedPermutation ==
    Returned =>
        /\ \A k \in 1..(Len(unit.task.result) - 1) :
               Instant(RawOf(unit.task.result[k].id))
                   <= Instant(RawOf(unit.task.result[k + 1].id))
        /\ \A m \in Range(unit.history) :
               Cardinality({k \in 1..Len(unit.task.result) : unit.task.result[k].id = m.id})
                   = IF Qualifies(m) THEN 1 ELSE 0
        /\ \A k \in 1..Len(unit.task.result) :
               \E m \in Range(unit.history) : unit.task.result[k] = to_message(m)

\* C15 witness: the history delivered a later message before an earlier one of
\* the same second, and both were returned.
C15_Witness ==
    /\ Returned
    /\ Len(unit.history) = 2
    /\ Len(unit.task.result) = 2
    /\ unit.history[1].created_at.second = unit.history[2].created_at.second
    /\ Instant(unit.history[1]) > Instant(unit.history[2])

\* C16: no returned message is from a bot or has neither content nor
\* attachment, and every other message of the history is returned, also one
\* with attachments and empty content.
C16_Filtering ==
    Returned =>
        /\ \A k \in 1..Len(unit.task.result) :
               /\ ~RawOf(unit.task.result[k].id).bot
               /\ \/ RawOf(unit.task.result[k].id).content # <<>>
                  \/ RawOf(unit.task.result[k].id).attachments # <<>>
        /\ \A i \in 1..Len(unit.history) :
               (/\ ~unit.history[i].bot
                /\ unit.history[i].content # <<>> \/ unit.history[i].attachments # <<>>)
                   => \E k \in 1..Len(unit.task.result) :
                          unit.task.result[k].id = unit.history[i].id

\* C16 witness: a bot message with an attachment and a message with an
\* attachment and no content were delivered, and only the second was returned.
C16_Witness ==
    /\ Returned
    /\ \E i, j \in 1..Len(unit.history) :
           /\ unit.history[i].bot /\ unit.history[i].attachments # <<>>
           /\ ~unit.history[j].bot
           /\ unit.history[j].content = <<>> /\ unit.history[j].attachments # <<>>
           /\ Len(unit.task.result) = 1
           /\ unit.task.result[1].id = unit.history[j].id

\* The character at position p (from 1) of a string given in pieces.
RECURSIVE CharAt(_, _)
CharAt(str, p) ==
    IF Head(str).n >= p THEN Head(str).ch ELSE CharAt(Tail(str), p - Head(str).n)

\* The first and last position of every piece of a string.
PieceEnds(str) ==
    UNION { { str_len(SubSeq(str, 1, j - 1)) + 1, str_len(SubSeq(str, 1, j)) } :
                j \in 1..Len(str) }

\* C17: content longer than MAX_MESSAGE_CONTENT_LENGTH comes out as its first
\* MAX_MESSAGE_CONTENT_LENGTH characters followed by '...[truncated]'; content
\* of at most that length, the limit included, comes out unchanged.
C17_Truncation ==
    Returned =>
        \A k \in 1..Len(unit.task.result) :
            LET content_in == RawOf(unit.task.result[k].id).content
                content_out == unit.task.result[k].content
            IN IF str_len(content_in) > 100000
               THEN /\ str_len(content_out) = 100000 + 14
                    /\ \A p \in PieceEnds(content_in) \cup PieceEnds(content_out) :
                           p <= 100000 => CharAt(content_out, p) = CharAt(content_in, p)
                    /\ CharAt(content_out, 100001) = "...[truncated]"
                    /\ CharAt(content_out, 100014) = "...[truncated]"
               ELSE content_out = content_in

\* C17 witness: content of 100,001 characters came out cut and marked, content
\* of exactly 100,000 characters came out as it was.
C17_Witness ==
    /\ Returned
    /\ \E k, k2 \in 1..Len(unit.task.result) :
           /\ str_len(RawOf(unit.task.result[k].id).content) = 100001
           /\ str_len(unit.task.result[k].content) = 100014
           /\ str_len(RawOf(unit.task.result[k2].id).content) = 100000
           /\ unit.task.result[k2].content = RawOf(unit.task.result[k2].id).content

\* C18: up to 10 attachments are listed as they are; of more than 10 the first
\* 10 are listed, followed by one entry counting the rest. Of the reactions the
\* first 20 are listed in order, with no entry for the rest.
C18_BoundedLists ==
    Returned =>
        \A k \in 1..Len(unit.task.result) :
            LET message == RawOf(unit.task.result[k].id)
                produced == unit.task.result[k]
                n == Len(message.attachments)
                r == Len(message.reactions)
            IN /\ IF n <= 10
                  THEN produced.attachments = message.attachments
                  ELSE /\ Len(produced.attachments) = 11
                       /\ \A i \in 1..10 : produced.attachments[i] = message.attachments[i]
                       /\ produced.attachments[11] = [filename |-> 0, more |-> n - 10]
               /\ Len(produced.reactions) = IF r <= 20 THEN r ELSE 20
               /\ \A i \in 1..Len(produced.reactions) :
                      /\ produced.reactions[i].count = message.reactions[i].count
                      /\ produced.reactions[i].emoji = str_take(message.reactions[i].emoji, 20)

\* C18 witness: a message with 12 attachments came out with 10 files and
\* '...and 2 more', and a message with 21 reactions came out with 20.
C18_Witness ==
    /\ Returned
    /\ \E k, k2 \in 1..Len(unit.task.result) :
           /\ Len(RawOf(unit.task.result[k].id).attachments) = 12
           /\ unit.task.result[k].attachments[11].more = 2
           /\ Len(RawOf(unit.task.result[k2].id).reactions) = 21
           /\ Len(unit.task.result[k2].reactions) = 20

\* The pieces of a string from its first to its last piece that is no blank.
InnerPieces(str) ==
    LET solid == {i \in 1..Len(str) : str[i].ch \notin {" ", "\t", "\n"}}
    IN IF solid = {} THEN <<>>
       ELSE SubSeq(str, CHOOSE i \in solid : \A j \in solid : i <= j,
                        CHOOSE i \in solid : \A j \in solid : i >= j)

\* C19: constructing a fetcher with the credential absent, empty or shorter
\* than 50 characters once trimmed fails with DiscordClientError, with no client
\* created and nothing started; a credential of at least 50 characters is
\* accepted and stored trimmed and otherwise unchanged.
C19_TokenValidated ==
    unit.fn = "__init__" =>
        IF \/ unit.environ_token = <<>>
           \/ str_len(InnerPieces(unit.environ_token[1])) < 50
        THEN /\ unit.raised.type = "DiscordClientError"
             /\ ~unit.client_created
             /\ ~unit.login_started
             /\ pc = "idle"
             /\ login_task.state = "not_started"
        ELSE /\ unit.raised = NoExc
             /\ unit.client_created
             /\ unit.token = InnerPieces(unit.environ_token[1])

\* C19 witness: a credential of 49 characters with blanks around it, 51
\* characters in all, was refused.
C19_Witness ==
    /\ unit.fn = "__init__"
    /\ unit.environ_token # <<>>
    /\ str_len(unit.environ_token[1]) = 51
    /\ str_len(InnerPieces(unit.environ_token[1])) = 49
    /\ unit.raised.type = "DiscordClientError"
    /\ ~unit.client_created

\* The number written by a string of plain decimal digits.
RECURSIVE Numeral(_)
Numeral(digits) ==
    IF digits = <<>> THEN 0
    ELSE 10 * Numeral(SubSeq(digits, 1, Len(digits) - 1))
         + (CHOOSE d \in 0..9 : digits[Len(digits)] = <<"0", "1", "2", "3", "4", "5", "6", "7", "8", "9">>[d + 1])

PlainNumber(value) ==
    /\ value # <<>>
    /\ value[1] # <<>>
    /\ \A i \in 1..Len(value[1]) :
           value[1][i] \in {"0", "1", "2", "3", "4", "5", "6", "7", "8", "9"}

\* C20: _get_env_int never raises; it returns the value of the variable when
\* that is set, is an integer and lies between min_val and max_val inclusive,
\* and the default otherwise, never the nearest limit; so the three
\* configuration properties stay in [100, 10000], [1, 20] and [10, 300].
C20_EnvIntOrDefault ==
    unit.fn = "_get_env_int" =>
        /\ unit.raised = NoExc
        /\ LET parsed == IF unit.value = <<>> THEN <<>> ELSE int(unit.value[1])
           IN unit.result = IF /\ parsed # <<>>
                               /\ parsed[1] >= unit.min_val
                               /\ parsed[1] <= unit.max_val
                            THEN parsed[1]
                            ELSE unit.default
        /\ PlainNumber(unit.value) =>
               unit.result = IF /\ Numeral(unit.value[1]) >= unit.min_val
                                /\ Numeral(unit.value[1]) <= unit.max_val
                             THEN Numeral(unit.value[1])
                             ELSE unit.default
        /\ (unit.value = <<>> \/ unit.value = <<<<"a", "b", "c">>>>
               \/ unit.value = <<<<"1", "2", ".", "5">>>>) =>
               unit.result = unit.default
        /\ unit.name = "max_messages_per_channel" =>
               unit.property.whole \in 100..10000
        /\ unit.name = "max_concurrent_channels" =>
               unit.property.whole \in 1..20
        /\ unit.name = "operation_timeout" =>
               unit.property.whole \in 10..300 /\ unit.property.fraction = 0

\* C20 witness: DISCORD_CHAT_MAX_CONCURRENT was 21, one above the largest
\* allowed value, and the property read 5, the default.
C20_Witness ==
    /\ unit.fn = "_get_env_int"
    /\ unit.name = "max_concurrent_channels"
    /\ unit.value = <<<<"2", "1">>>>
    /\ unit.result = 5

FailedAuthAttempts == {k \in 1..Len(audit) : audit[k].event = "auth_attempt" /\ ~audit[k].success}

LoginRejected == login_task.state = "failed" /\ login_task.exc.type = "LoginFailure"

\* C21: when the remote login was rejected with LoginFailure, the call fails
\* with 'Discord authentication failed' and the audit log holds one failed
\* auth-attempt event; error and event are the same whatever the credential,
\* they carry nothing of it.
C21_LoginRejectedSurfaces ==
    (pc = "done" /\ LoginRejected) =>
        /\ outcome = [kind |-> "error", type |-> "DiscordClientError",
                      message |-> "Discord authentication failed", arg |-> <<>>]
        /\ Cardinality(FailedAuthAttempts) = 1
        /\ \A k \in FailedAuthAttempts :
               audit[k] = [event |-> "auth_attempt", success |-> FALSE,
                           arg |-> <<"Invalid token">>]

HttpFailed == login_task.state = "failed" /\ login_task.exc.type = "HTTPException"

\* C22: an HTTPException at session level makes the call fail with 'Discord API
\* request failed (status: S)', S being the status code of the exception when
\* it has one and 'unknown' otherwise; nothing else of the exception is in the
\* message.
C22_HttpFailureSurfaces ==
    (pc = "done" /\ HttpFailed) =>
        /\ outcome.kind = "error"
        /\ outcome.type = "DiscordClientError"
        /\ outcome.message = "Discord API request failed"
        /\ login_task.exc.detail = <<"429", "Rate limited">> => outcome.arg = <<"429">>
        /\ login_task.exc.detail = <<"Rate limited">> => outcome.arg = <<"unknown">>

\* The call ended with an exception in flight that is no privileged-intents,
\* login or HTTP failure (and not the cancellation of the overall timeout).
Unclassified ==
    /\ exc # NoExc
    /\ exc.type \notin {"PrivilegedIntentsRequired", "LoginFailure", "HTTPException",
                        "CancelledError"}

\* C23: every exception that is no privileged-intents, login or HTTP failure
\* makes the call fail with the same generic 'Failed to fetch Discord messages'
\* error, whatever the text of the exception, and the client is closed before
\* the error surfaces.
C23_UnknownErrorGeneric ==
    (pc = "done" /\ Unclassified) =>
        /\ outcome = [kind |-> "error", type |-> "DiscordClientError",
                      message |-> "Failed to fetch Discord messages", arg |-> <<>>]
        /\ closed
        /\ close_calls >= 1

\* The ready signal was set before the timeout of the wait elapsed.
ReadyInTime == unit.ready_at # <<>> /\ unit.ready_at[1] < unit.timeout

\* C24: _wait_until_ready(timeout) returns exactly when the ready signal is set
\* before the timeout elapses, also when it was set on entry, and otherwise
\* raises DiscordClientError 'Timed out waiting for Discord connection'; the
\* on_ready handler sets the signal and records one successful auth attempt.
C24_ReadyWait ==
    unit.fn = "_wait_until_ready" =>
        /\ unit.state = "returned" <=> ReadyInTime
        /\ unit.state = "raised" <=>
               (unit.elapsed = unit.timeout /\ ~ReadyInTime)
        /\ unit.state = "raised" <=>
               unit.raised = [type |-> "DiscordClientError",
                              detail |-> <<"Timed out waiting for Discord connection">>]
        /\ unit.state = "waiting" => (unit.elapsed < unit.timeout /\ ~unit.ready_event)
        /\ unit.ready_at # <<>> <=> unit.ready_event
        /\ unit.ready_event <=>
               unit.audit = << [event |-> "auth_attempt", success |-> TRUE, arg |-> <<"none">>] >>
        /\ ~unit.ready_event => unit.audit = <<>>

\* C24 witness: the wait with a timeout of 3 was resumed by on_ready after 2
\* ticks and returned.
C24_Witness ==
    /\ unit.fn = "_wait_until_ready"
    /\ unit.timeout = 3
    /\ unit.ready_at = <<2>>
    /\ unit.state = "returned"
    /\ Len(unit.audit) = 1

RateLimitEvents == {k \in 1..Len(audit) : audit[k].event = "rate_limit"}

ApiCallEvents == {k \in 1..Len(audit) : audit[k].event = "api_call"}

ApiCallsIn(events, channel_id) ==
    {k \in 1..Len(events) : events[k].event = "api_call" /\ events[k].arg = <<channel_id>>}

ApiCallsOf(channel_id) == ApiCallsIn(audit, channel_id)

\* At most one rate-limit event, there before any fetch is created and before
\* any API-call event; a channel has an API-call event exactly when its fetch
\* has finished.
C25_Logged ==
    /\ Cardinality(RateLimitEvents) <= 1
    /\ (tasks # <<>> \/ ApiCallEvents # {}) => Cardinality(RateLimitEvents) = 1
    /\ \A r \in RateLimitEvents, k \in ApiCallEvents : r < k
    /\ \A i \in 1..Len(tasks) :
           Cardinality(ApiCallsOf(tasks[i].channel_id)) = IF tasks[i].state = "done" THEN 1 ELSE 0

\* An API-call event is appended in the step in which the fetch of its channel
\* finishes and gives its slot back; when the gate returns, the log holds one
\* rate-limit event and one API-call event for each of its channels.
C25_Step ==
    /\ \A i \in 1..Len(tasks) :
           ApiCallsIn(audit', tasks[i].channel_id) # ApiCallsIn(audit, tasks[i].channel_id) =>
               /\ tasks[i].state = "fetching"
               /\ Len(tasks') = Len(tasks)
               /\ tasks'[i].state = "done"
               /\ semaphore' = semaphore + 1
    /\ GateReturnsStep =>
           /\ Cardinality(RateLimitEvents) = 1
           /\ Cardinality(ApiCallEvents) = Len(tasks)
           /\ \A i \in 1..Len(tasks) : Cardinality(ApiCallsOf(tasks[i].channel_id)) = 1
           /\ audit' = audit

\* C25: one call of the gate over M channels whose fetches all complete logs
\* one rate-limit event, before any fetch starts, and M API-call events, one
\* for each channel, each after that channel's fetch finished and released its
\* slot.
C25_GateAudit == [](C25_Logged) /\ [][C25_Step]_vars

\* C25 witness: two fetches have finished and the log holds the rate-limit
\* event followed by their two API-call events.
C25_Witness ==
    /\ pc = "gather"
    /\ Len(tasks) = 2
    /\ \A i \in 1..2 : tasks[i].state = "done"
    /\ Len(audit) = 4
    /\ audit[2].event = "rate_limit"
    /\ audit[3].event = "api_call"
    /\ audit[4].event = "api_call"
    /\ audit[3].arg # audit[4].arg

InFlightOf(f) ==
    Cardinality({i \in 1..Len(pair.calls[f].tasks) : pair.calls[f].tasks[i].state = "fetching"})

QueuedOf(f) ==
    {i \in 1..Len(pair.calls[f].tasks) : pair.calls[f].tasks[i].state = "waiting"}

\* Each fetcher keeps its in-flight fetches within its own limit, its semaphore
\* counts its own fetches only, and its client is closed by its own call only.
C26_Own ==
    \A f \in {1, 2} :
        /\ InFlightOf(f) <= pair.calls[f].limit
        /\ pair.calls[f].pc # "idle" =>
               pair.semaphores[f] = pair.calls[f].limit - InFlightOf(f)
        /\ pair.closed[f] <=> pair.calls[f].pc = "done"

\* A fetch of f queues only when f itself is saturated (or has a fetch queued
\* already), and a step of one fetcher leaves the objects of the other alone.
C26_Step ==
    \A f \in {1, 2} :
        /\ QueuedOf(f)' # QueuedOf(f) /\ QueuedOf(f) \subseteq QueuedOf(f)' =>
               (InFlightOf(f) = pair.calls[f].limit \/ QueuedOf(f) # {})
        /\ pair.calls[f]' = pair.calls[f] =>
               /\ pair.semaphores[f]' = pair.semaphores[f]
               /\ pair.closed[f]' = pair.closed[f]

\* C26: two calls running concurrently on separate fetchers are independent:
\* each is bounded by its own limit through its own semaphore, one saturating
\* its gate never blocks a fetch of the other, and closing or timing out one
\* does not close the session of the other.
C26_Independent == [](C26_Own) /\ [][C26_Step]_vars

\* C26 witness: fetcher 1, with limit 1, timed out with a fetch cancelled and
\* is closed, while fetcher 2 is still in its gate with one fetch in flight,
\* one slot free and its client open.
C26_Witness ==
    /\ pair.calls[1].pc = "done"
    /\ pair.closed[1]
    /\ pair.calls[1].limit = 1
    /\ \E i \in 1..Len(pair.calls[1].tasks) : pair.calls[1].tasks[i].state = "cancelled"
    /\ pair.calls[2].pc = "gather"
    /\ ~pair.closed[2]
    /\ InFlightOf(2) = 1
    /\ pair.semaphores[2] = 1

\* The instant at which the call was made: the clock has moved on since, once
\* the client is ready.
CallInstant == 2026 * 8766

\* C27: every result of the impl reports as end_time the instant taken at the
\* start of the call and as start_time that instant less exactly `hours` hours,
\* also when no message was found, and every channel fetch of the call is
\* issued with after = start_time and before = end_time.
C27_Window ==
    /\ ret # NoValue =>
           /\ ret.end_time = CallInstant
           /\ ret.start_time = CallInstant - args.hours
           /\ clock > ret.end_time
    /\ outcome.kind = "result" =>
           /\ outcome.value.end_time = CallInstant
           /\ outcome.value.start_time + args.hours = outcome.value.end_time
    /\ \A i \in 1..Len(tasks) :
           /\ tasks[i].before = CallInstant
           /\ tasks[i].after = CallInstant - args.hours

\* C27 witness: a call over 24 hours returned a digest without any message,
\* window included, after two channels were fetched with that window.
C27_Witness ==
    /\ pc = "done"
    /\ outcome.kind = "result"
    /\ outcome.value.total_messages = 0
    /\ outcome.value.channels = <<>>
    /\ args.hours = 24
    /\ outcome.value.end_time - outcome.value.start_time = 24
    /\ Cardinality({k \in 1..Len(audit) : audit[k].event = "api_call"}) = 2

\* The bound the caller asked for: the argument when given, else the
\* configured 60 s.
RequestedBound == IF args.timeout # <<>> THEN args.timeout[1] ELSE 60

\* C28: fetch_server_messages uses its timeout argument as the overall bound
\* whenever it is given, as given even below the configured minimum of 10 s,
\* and the configured operation_timeout otherwise; the OperationTimeout
\* message names the bound used.
C28_TimeoutArgument ==
    /\ pc # "idle" => operation_timeout = RequestedBound
    /\ (outcome.kind = "error" /\ outcome.message = "Operation timed out after") =>
           outcome.arg = <<RequestedBound>>
    /\ (pc = "closing" /\ ready_timer_fired /\ ~timer_fired) => RequestedBound >= 30
    /\ (pc = "closing" /\ timer_fired /\ ~ready_event /\ ~ready_timer_fired) =>
           RequestedBound <= 30

\* C28 witness: a call with a timeout argument of 5 s, below the configured
\* minimum, ended with 'Operation timed out after 5 seconds'.
C28_Witness ==
    /\ pc = "done"
    /\ args.timeout = <<5>>
    /\ outcome.kind = "error"
    /\ outcome.message = "Operation timed out after"
    /\ outcome.arg = <<5>>

\* ------------------------------------------------------------------- C29
\* The impl has started the login task and not yet returned to its caller.
ImplRunning == pc \in {"wait_ready", "gather", "closing", "await_login"}

\* A channel fetch of the call that has not ended yet.
Unfinished(t) == ~Terminal(t)

\* C29: within one call of _fetch_server_messages_impl the steps come in a fixed
\* order: the login task is started before the ready signal is awaited; the
\* server is resolved and channel fetches exist only once the ready signal has
\* fired; channel fetches exist only for a resolved server, never after a
\* failed resolution; and the channel fetches have run when the session is
\* closed, so that no channel fetch is still under way on a closed session.
C29_StepOrder ==
    /\ ImplRunning => login_task.state # "not_started"
    /\ (guild # NoValue \/ tasks # <<>>) => ready_event
    /\ tasks # <<>> => guild # NoValue
    /\ exc.type = "ServerNotFoundError" => (guild = NoValue /\ tasks = <<>>)
    /\ closed => \A i \in 1..Len(tasks) : ~Unfinished(tasks[i])

\* ------------------------------------------------------------------- C30
\* The gate of the call has created its semaphore.
GateOpen == guild # NoValue

\* C30: each gated channel fetch holds exactly one slot of the semaphore from
\* before _fetch_channel_messages is invoked until it completes, by returning,
\* raising or being cancelled: the free slots and the fetches under way always
\* add up to the limit N, a fetch that is queued or has ended holds none, and
\* once every fetch of the call has ended all N slots are free again.
C30_SlotAccounting ==
    GateOpen =>
        /\ semaphore + InFlight = max_concurrent_channels
        /\ semaphore \in 0..max_concurrent_channels
        /\ (\A i \in 1..Len(tasks) : Terminal(tasks[i])) =>
               semaphore = max_concurrent_channels

\* C30 witness: with two slots and two channels, one fetch has raised, the
\* other has returned, and both slots are free again.
C30_Witness ==
    /\ GateOpen
    /\ max_concurrent_channels = 2
    /\ Len(tasks) = 2
    /\ \E i, j \in 1..Len(tasks) : tasks[i].state = "raised" /\ tasks[j].state = "done"
    /\ semaphore = max_concurrent_channels

\* ------------------------------------------------------------------- C31
\* The call has ended and the background login task had ended with an exception.
EndedWithLoginFailed == pc = "done" /\ login_task.state = "failed"

\* C31 (as claimed): a call whose background login task failed ends in an
\* error without the ready-wait timeout or the overall timeout having elapsed
\* first.
C31_LoginFailureImmediate ==
    EndedWithLoginFailed =>
        /\ outcome.kind = "error"
        /\ ~ready_timer_fired
        /\ ~timer_fired

\* ------------------------------------------------------------------- C32
\* The call handed a result to its caller.
Succeeded == outcome.kind = "result"

\* A call that succeeded closed the client exactly once.
C32_ClosedOnce == Succeeded => (close_calls = 1 /\ closed)

\* The close routine is invoked on the success path only when every channel
\* fetch of the call has completed and nothing was handed to the caller yet;
\* a result is handed over only after the one invocation of close.
C32_Step ==
    /\ (close_calls' # close_calls /\ exc' = NoExc) =>
           /\ \A i \in 1..Len(tasks) : tasks[i].state = "done"
           /\ close_calls = 0
           /\ outcome = NoValue /\ outcome' = NoValue
    /\ (~Succeeded /\ Succeeded') =>
           /\ close_calls = 1 /\ close_calls' = 1
           /\ closed

\* C32: on the success path of _fetch_server_messages_impl the close routine
\* of the client is invoked exactly once, after every channel fetch of the call
\* has completed and before the result is handed to the caller.
C32_SuccessClosesOnce == [](C32_ClosedOnce) /\ [][C32_Step]_vars

\* C32 witness: a call returned the messages of a channel and closed the client.
C32_Witness ==
    /\ Succeeded
    /\ outcome.value.total_messages > 0
    /\ close_calls = 1

\* ------------------------------------------------------------------- C33
\* The multiples of 100 up to n, in order.
Hundreds(n) == [j \in 1..(n \div 100) |-> 100 * j]

\* C33 (as claimed): _fetch_channel_messages yields to the scheduler after every
\* 100 raw messages of the history, skipped ones counted: after the 100th, the
\* 200th, ... message delivered, and at no other point.
C33_YieldsEveryHundredRaw ==
    Returned => unit.task.yields = Hundreds(unit.task.seen)

\* ------------------------------------------------------------------- C34
\* C34: the messages returned for a channel are never more than the configured
\* maximum per channel: the maximum is the limit of the history request, so no
\* more raw messages than that are examined, however many the channel holds.
C34_MessageCap ==
    Returned =>
        /\ unit.limit \in MIN_MESSAGES_PER_CHANNEL..MAX_MESSAGES_PER_CHANNEL
        /\ unit.task.seen <= unit.limit
        /\ unit.task.seen = Len(unit.history)
        /\ Len(unit.task.result) <= unit.task.seen

\* C34 witness: the channel held more messages than the configured maximum,
\* and as many as the maximum were examined and returned.
C34_Witness ==
    /\ Returned
    /\ Len(unit.channel) > unit.limit
    /\ unit.task.seen = unit.limit
    /\ Len(unit.task.result) = unit.limit

\* ------------------------------------------------------------------- C35
\* The caps of a produced message on its author name, its reactions and their
\* emoji.
CappedAuthorAndReactions(produced) ==
    /\ str_len(produced.author) <= 100
    /\ Len(produced.reactions) <= 20
    /\ \A i \in 1..Len(produced.reactions) : str_len(produced.reactions[i].emoji) <= 20

\* C35 (as claimed): every message produced by _fetch_channel_messages has an
\* author name of at most 100 characters, content of at most 100,000
\* characters, at most 20 reactions, and emoji of at most 20 characters.
C35_SizeCaps ==
    Returned =>
        \A k \in 1..Len(unit.task.result) :
            /\ CappedAuthorAndReactions(unit.task.result[k])
            /\ str_len(unit.task.result[k].content) <= 100000

\* C35 (amended): every message produced by _fetch_channel_messages has an
\* author name of at most 100 characters, at most 20 reactions and emoji of at
\* most 20 characters; its content has at most 100,000 characters when it was
\* not cut, and 100,000 characters followed by the 14 characters of the
\* marker, 100,014 in all, when it was.
C35_SizeCapsWithMarker ==
    Returned =>
        \A k \in 1..Len(unit.task.result) :
            /\ CappedAuthorAndReactions(unit.task.result[k])
            /\ str_len(unit.task.result[k].content) <= 100000 + 14
            /\ str_len(unit.task.result[k].content) > 100000 =>
                   /\ str_len(unit.task.result[k].content) = 100000 + 14
                   /\ str_len(RawOf(unit.task.result[k].id).content) > 100000

\* C35 witness: a message with content of 100,001 characters and a first emoji
\* of 21 characters came out with 100,014 and 20, another with an author name
\* of 101 characters came out with 100.
C35_Witness ==
    /\ Returned
    /\ \E k, k2 \in 1..Len(unit.task.result) :
           /\ str_len(RawOf(unit.task.result[k].id).content) = 100001
           /\ str_len(unit.task.result[k].content) = 100014
           /\ str_len(RawOf(unit.task.result[k].id).reactions[1].emoji) = 21
           /\ str_len(unit.task.result[k].reactions[1].emoji) = 20
           /\ str_len(RawOf(unit.task.result[k2].id).display_name) = 101
           /\ str_len(unit.task.result[k2].author) = 100

\* ------------------------------------------------------------------- C36
\* A channel fetch of the call has failed, whatever the error of its history.
SomeFetchFailed == \E i \in 1..Len(tasks) : tasks[i].err # "none"

\* C36 (as claimed): an error of one channel's history, of any kind, does not
\* make the call fail: no channel fetch ends by raising out of the gate, and
\* the impl never leaves the gate with an exception of a channel fetch.
C36_ChannelFailureContained ==
    /\ \A i \in 1..Len(tasks) : tasks[i].state # "raised"
    /\ (pc = "closing" /\ SomeFetchFailed) => exc.type \in {"none", "CancelledError"}

\* ------------------------------------------------------------------- C37
\* C37 (as claimed): from the moment the close routine of the client is invoked,
\* on whatever exit path, no channel fetch of the call is in flight, waiting
\* for a slot of the semaphore or still to be run.
C37_NoFetchAtClose ==
    close_calls > 0 =>
        \A i \in 1..Len(tasks) : tasks[i].state \notin {"pending", "waiting", "fetching"}

\* ------------------------------------------------------------------- C38
\* The cleanup awaited a login task that had ended with an exception.
AwaitedFailedLogin == pc = "done" /\ login_awaited /\ login_task.state = "failed"

\* The message of the error a login exception is translated to.
LoginErrorMessage(type) ==
    CASE type = "LoginFailure" -> "Discord authentication failed"
      [] type = "HTTPException" -> "Discord API request failed"
      [] type = "PrivilegedIntentsRequired" -> "Privileged intents required"
      [] OTHER -> "Failed to fetch Discord messages"

\* C38: the call returns a result only if the login task ended by cancellation
\* or by returning; when the cleanup awaits a login task that ended with an
\* exception, that exception replaces what the main flow had (a result or
\* another error) and the call fails with the error it is translated to.
C38_LoginFailureReplaces ==
    /\ Succeeded => (login_awaited /\ login_task.state \in {"cancelled", "done"})
    /\ AwaitedFailedLogin =>
           /\ outcome.kind = "error"
           /\ outcome.type = "DiscordClientError"
           /\ outcome.message = LoginErrorMessage(login_task.exc.type)
           /\ ret = NoValue

\* C38 witness: every channel fetch had returned and the gate had handed over
\* its results when the cleanup found the login task failed: the call failed.
C38_Witness ==
    /\ AwaitedFailedLogin
    /\ ready_event
    /\ ~timer_fired
    /\ guild # NoValue
    /\ tasks = <<>>
    /\ ApiCallCount > 0
    /\ outcome.kind = "error"

C40_ReadyStaysSet ==
    (unit.fn = "_wait_until_ready" /\ unit.ready_event) => unit'.ready_event

C40_SecondWait ==
    (unit.fn = "_wait_until_ready" /\ unit.calls = 2) =>
        /\ unit.closed
        /\ unit.ready_event =>
               /\ unit.state = "returned"
               /\ unit.elapsed = 0
               /\ unit.raised = NoExc
               /\ Len(unit.audit) = 1

C40_ReadyMonotone == [](C40_SecondWait) /\ [][C40_ReadyStaysSet]_vars

\* C40 witness: the second call's wait has returned on the closed client with
\* the one ready notification of the first call.
C40_Witness ==
    /\ unit.fn = "_wait_until_ready"
    /\ unit.calls = 2
    /\ unit.closed
    /\ unit.ready_event
    /\ unit.state = "returned"
    /\ unit.elapsed = 0
    /\ Len(unit.audit) = 1

====
